---- MODULE Spec2Model ----
(***************************************************************************)
(* OpenNEM network emission flows (opennem/workers/emissions.py).          *)
(*                                                                         *)
(* Data frames are sequences of records (one record per row), Python       *)
(* dictionaries are functions whose domain is the set of keys.  A region   *)
(* key "NSW1" of a dictionary is the 1-tuple <<"NSW1">> and an edge key    *)
(* ("QLD1", "NSW1") is the 2-tuple <<"QLD1", "NSW1">>.                     *)
(*                                                                         *)
(* Floating point numbers are exact rationals <<n, d>> (d > 0, lowest      *)
(* terms) extended with the IEEE values the code can produce by dividing   *)
(* by a zero demand: <<1, 0>> is +inf, <<-1, 0>> is -inf, <<0, 0>> is NaN. *)
(***************************************************************************)
EXTENDS Integers, Sequences, FiniteSets, TLC

VARIABLES
    pc,                 \* control location of the entry point being run
    interconnector_di,  \* argument of interconnector_dict: one interval's interconnector rows
    ic_dict,            \* value returned by interconnector_dict
    power_dict,         \* argument of nem_demand
    demand_dict,        \* value returned by nem_demand
    days,               \* run_emission_update_day: argument days
    current_day,        \* run_emission_update_day: loop variable
    df_gen,             \* calc_day: generation rows loaded for current_day
    df_ic,              \* calc_day: interconnector rows loaded for current_day
    dt,                 \* calculate_emission_flows: loop variable
    results,            \* calculate_emission_flows: interval -> result of solve_flows
    emissions_day,      \* run_and_store_emission_flows: value returned by calc_day
    calls,              \* the days run_and_store_emission_flows was called for, in order
    insert_calls,       \* the days whose aggregate was handed to insert_flows, in order
    table,              \* the rows committed to the aggregate table
    log,                \* what was written through the logger (or printed), in order
    exc,                \* the exception that left the entry point, "" if none
    ins_pc,             \* insert_flows: control location of each run
    flow_results,       \* insert_flows: argument of each run
    records_to_store,   \* insert_flows: the records of each run
    conn,               \* insert_flows: the open transaction of each run's connection
    ret,                \* insert_flows: the value each run returned last
    clock,              \* datetime.now()
    commits,            \* the runs that committed, in commit order, with their records
    adapters,           \* utils.http: http.adapters, prefix -> mounted transport adapter
    http_pc,            \* utils.http: the mount statement the module import is at
    http_req,           \* utils.http: the request in flight on the session http
    http_resp,          \* utils.http: the status the last request returned with
    eng_pc,             \* run_milestone_engine: control location
    asyncio_imported,   \* recordreactor.engine: whether the name asyncio is bound in the module
    dry_run,            \* settings.dry_run
    networks,           \* run_milestone_engine: argument networks
    start_interval,     \* run_milestone_engine: argument start_interval
    end_interval_arg,   \* run_milestone_engine: argument end_interval as the caller passed it
    end_interval,       \* run_milestone_engine: argument end_interval, assigned in the loop
    metrics,            \* run_milestone_engine: argument metrics
    num_tasks,          \* run_milestone_engine: argument num_tasks after its default
    network_i,          \* run_milestone_engine: position of the for loop in networks
    current_interval,   \* run_milestone_engine: loop variable of the while loop
    tasks,              \* run_milestone_engine: the coroutines created and not yet gathered
    created,            \* every coroutine the engine created
    awaited,            \* every coroutine that was awaited through asyncio.gather
    crawl_pc,           \* run_crawl: control location
    crawler,            \* run_crawl: argument crawler, a CrawlerDefinition
    crawl_meta,         \* the crawler's metadata written through crawler_set_meta
    cr,                 \* run_crawl: what crawler.processor returned
    now_nem_time        \* run_crawl: get_today_opennem()

store_vars == <<ins_pc, flow_results, records_to_store, conn, ret, clock, commits>>

pure_vars == <<interconnector_di, ic_dict, power_dict, demand_dict>>

day_vars == <<days, current_day, df_gen, df_ic, dt, results, emissions_day, calls,
              insert_calls, table, log, exc>>

http_vars == <<adapters, http_pc, http_req, http_resp>>

engine_vars == <<eng_pc, asyncio_imported, dry_run, networks, start_interval,
                 end_interval_arg, end_interval, metrics, num_tasks, network_i, current_interval, tasks, created, awaited>>

crawl_vars == <<crawl_pc, crawler, crawl_meta, cr, now_nem_time>>

ext_vars == <<http_vars, engine_vars, crawl_vars>>

vars == <<pc, pure_vars, day_vars, store_vars, ext_vars>>

----------------------------------------------------------------------------
(* Bounds of the model *)

\* rows of one interval handed to interconnector_dict
MaxRows == 2

\* entries of a power dictionary handed to nem_demand that differ from 0
MaxVaried == 2

\* largest value of such an entry
MaxVal == 2

\* run_emission_update_day is called with days in 0..MaxDays
MaxDays == 1

\* 5-minute intervals of a day
MaxIntervals == 2

----------------------------------------------------------------------------
(* The fixed topology *)

Regions == {"NSW1", "QLD1", "SA1", "TAS1", "VIC1"}

\* the undirected links of the grid, as the pairs the code names
Links == {<<"NSW1", "QLD1">>, <<"NSW1", "VIC1">>, <<"VIC1", "SA1">>, <<"VIC1", "TAS1">>}

Edges == Links \cup {<<l[2], l[1]>> : l \in Links}

----------------------------------------------------------------------------
(* Numbers *)

Abs(x) == IF x < 0 THEN -x ELSE x

Sign(x) == IF x < 0 THEN -1 ELSE IF x > 0 THEN 1 ELSE 0

RECURSIVE Gcd(_, _)
Gcd(x, y) == IF y = 0 THEN x ELSE Gcd(y, x % y)

NaN == <<0, 0>>

Inf(s) == <<s, 0>>

\* the float n/d, d # 0
Frac(n, d) ==
    LET g == Gcd(Abs(n), Abs(d))
        s == IF d < 0 THEN -1 ELSE 1
    IN  <<s * (n \div g), s * (d \div g)>>

R(i) == <<i, 1>>

IsNaN(x) == x = NaN

IsFinite(x) == x[2] # 0

RNeg(x) == <<-x[1], x[2]>>

RAdd(x, y) ==
    IF IsFinite(x) /\ IsFinite(y) THEN Frac(x[1] * y[2] + y[1] * x[2], x[2] * y[2])
    ELSE IF IsNaN(x) \/ IsNaN(y) THEN NaN
    ELSE IF IsFinite(x) THEN y
    ELSE IF IsFinite(y) THEN x
    ELSE IF x = y THEN x ELSE NaN

RSub(x, y) == RAdd(x, RNeg(y))

RMul(x, y) ==
    IF IsFinite(x) /\ IsFinite(y) THEN Frac(x[1] * y[1], x[2] * y[2])
    ELSE IF IsNaN(x) \/ IsNaN(y) THEN NaN
    ELSE IF x[1] = 0 \/ y[1] = 0 THEN NaN
    ELSE Inf(Sign(x[1]) * Sign(y[1]))

\* IEEE division: x/0 is NaN for x = 0 and an infinity otherwise
RDiv(x, y) ==
    IF IsNaN(x) \/ IsNaN(y) THEN NaN
    ELSE IF ~IsFinite(y) THEN (IF IsFinite(x) THEN R(0) ELSE NaN)
    ELSE IF ~IsFinite(x) THEN Inf(Sign(x[1]) * (IF y[1] < 0 THEN -1 ELSE 1))
    ELSE IF y[1] = 0 THEN (IF x[1] = 0 THEN NaN ELSE Inf(Sign(x[1])))
    ELSE Frac(x[1] * y[2], x[2] * y[1])

RLt(x, y) == IsFinite(x) /\ IsFinite(y) /\ x[1] * y[2] < y[1] * x[2]

Range(s) == {s[i] : i \in DOMAIN s}

----------------------------------------------------------------------------
(* interconnector_dict *)

\* .groupby([from, to]).generated.sum(): one entry per observed (from, to)
GroupedFlows(rows) ==
    LET keys == {<<r.interconnector_region_from, r.interconnector_region_to>> : r \in Range(rows)}
        Gen(i) == rows[i].generated
    IN  [k \in keys |->
            LET idx == {i \in DOMAIN rows :
                            /\ rows[i].interconnector_region_from = k[1]
                            /\ rows[i].interconnector_region_to = k[2]}
                F[S \in SUBSET idx] ==
                    IF S = {} THEN 0
                    ELSE LET i == CHOOSE j \in S : TRUE IN Gen(i) + F[S \ {i}]
            IN  F[idx]]

Clip(g) == IF g < 0 THEN 0 ELSE g

\* dx: indexed (interconnector_region_to, interconnector_region_from), negatives zeroed
FlowsDx(rows) ==
    LET g == GroupedFlows(rows)
    IN  [k \in {<<f[2], f[1]>> : f \in DOMAIN g} |-> Clip(g[<<k[2], k[1]>>])]

\* dy: the two columns renamed into each other, the value negated, negatives zeroed
FlowsDy(rows) ==
    LET g == GroupedFlows(rows)
    IN  [k \in DOMAIN g |-> Clip(-g[k])]

\* {**dx, **dy}: a key of both takes dy's value
interconnector_dict(rows) == FlowsDy(rows) @@ FlowsDx(rows)

----------------------------------------------------------------------------
(* nem_demand *)

K1(r) == <<r>>

\* line 219-220 raise Exception, and the KeyError of any other absent key
nem_demand_raises(p) ==
    \/ K1("NSW1") \notin DOMAIN p
    \/ \E k \in {K1(r) : r \in Regions} \cup Edges : k \notin DOMAIN p

\* nem_demand with the TAS1 link of VIC1 credited instead of debited
nem_demand_sign(p) ==
    [r \in Regions |->
        CASE r = "NSW1" ->
                p[K1("NSW1")] + p[<<"QLD1", "NSW1">>] + p[<<"VIC1", "NSW1">>]
                - p[<<"NSW1", "VIC1">>] - p[<<"NSW1", "QLD1">>]
          [] r = "QLD1" -> p[K1("QLD1")] + p[<<"NSW1", "QLD1">>] - p[<<"QLD1", "NSW1">>]
          [] r = "SA1" -> p[K1("SA1")] + p[<<"VIC1", "SA1">>] - p[<<"SA1", "VIC1">>]
          [] r = "TAS1" -> p[K1("TAS1")] + p[<<"VIC1", "TAS1">>] - p[<<"TAS1", "VIC1">>]
          [] r = "VIC1" ->
                p[K1("VIC1")] + p[<<"NSW1", "VIC1">>] + p[<<"SA1", "VIC1">>]
                + p[<<"TAS1", "VIC1">>] - p[<<"VIC1", "NSW1">>] + p[<<"VIC1", "TAS1">>]
                - p[<<"VIC1", "SA1">>]]

nem_demand(p) ==
    [r \in Regions |->
        CASE r = "NSW1" ->
                p[K1("NSW1")] + p[<<"QLD1", "NSW1">>] + p[<<"VIC1", "NSW1">>]
                - p[<<"NSW1", "VIC1">>] - p[<<"NSW1", "QLD1">>]
          [] r = "QLD1" -> p[K1("QLD1")] + p[<<"NSW1", "QLD1">>] - p[<<"QLD1", "NSW1">>]
          [] r = "SA1" -> p[K1("SA1")] + p[<<"VIC1", "SA1">>] - p[<<"SA1", "VIC1">>]
          [] r = "TAS1" -> p[K1("TAS1")] + p[<<"VIC1", "TAS1">>] - p[<<"TAS1", "VIC1">>]
          [] r = "VIC1" ->
                p[K1("VIC1")] + p[<<"NSW1", "VIC1">>] + p[<<"SA1", "VIC1">>]
                + p[<<"TAS1", "VIC1">>] - p[<<"VIC1", "NSW1">>] - p[<<"VIC1", "TAS1">>]
                - p[<<"VIC1", "SA1">>]]

----------------------------------------------------------------------------
(* power, simple_exports, emissions *)

SumOver(S, f(_)) ==
    LET F[T \in SUBSET S] ==
            IF T = {} THEN 0
            ELSE LET e == CHOOSE x \in T : TRUE IN f(e) + F[T \ {e}]
    IN  F[S]

\* groupby(["trading_interval", "network_region", "fueltech_id"])[["energy", "emissions"]].sum()
calc_emissions(gen) ==
    LET keys == {<<r.trading_interval, r.network_region, r.fueltech_id>> : r \in Range(gen)}
        Of(k) == {i \in DOMAIN gen : <<gen[i].trading_interval, gen[i].network_region,
                                         gen[i].fueltech_id>> = k}
        Energy(i) == gen[i].energy
        Emissions(i) == gen[i].emissions
    IN  {[trading_interval |-> k[1], network_region |-> k[2], fueltech_id |-> k[3],
          energy |-> SumOver(Of(k), Energy), emissions |-> SumOver(Of(k), Emissions)] : k \in keys}

EnergyOf(r) == r.energy

EmissionsOf(r) == r.emissions

RegionRows(emissions_di, region) == {r \in emissions_di : r.network_region = region}

\* power_dict: energy per region present, updated with the interconnector dictionary
power(emissions_di, ic_di) ==
    LET regional == [k \in {K1(r.network_region) : r \in emissions_di} |->
                        SumOver(RegionRows(emissions_di, k[1]), EnergyOf)]
    IN  interconnector_dict(ic_di) @@ regional

simple_exports(emissions_di, p, from_regionid, to_regionid) ==
    LET dx == RegionRows(emissions_di, from_regionid)
        emissions_sum == SumOver(dx, EnergyOf) * SumOver(dx, EmissionsOf)
    IN  IF <<from_regionid, to_regionid>> \notin DOMAIN p THEN R(0)
        ELSE IF emissions_sum > 0 THEN Frac(p[<<from_regionid, to_regionid>>], emissions_sum)
        ELSE R(0)

simple_flows == {<<"QLD1", "NSW1">>, <<"SA1", "VIC1">>, <<"TAS1", "VIC1">>}

emissions(emissions_di, p) ==
    LET regional == [k \in {K1(r.network_region) : r \in emissions_di} |->
                        R(SumOver(RegionRows(emissions_di, k[1]), EmissionsOf))]
        simple == [k \in simple_flows |-> simple_exports(emissions_di, p, k[1], k[2])]
    IN  simple @@ regional

----------------------------------------------------------------------------
(* solve_flows *)

VarNames == <<"s", "q", "t", "n", "v", "v-n", "n-q", "n-v", "v-s", "v-t">>

Dim == Len(VarNames)

Idx == 0..(Dim - 1)

\* dict(zip([...], range(10)))
var_dict == [name \in Range(VarNames) |-> CHOOSE i \in Idx : VarNames[i + 1] = name]

Zeros2 == [i \in Idx |-> [j \in Idx |-> R(0)]]

Zeros1 == [i \in Idx |-> R(0)]

fill_row(a, row, pairs) ==
    [a EXCEPT ![row] =
        [j \in Idx |->
            LET hits == {k \in DOMAIN pairs : var_dict[pairs[k][1]] = j}
            IN  IF hits = {} THEN a[row][j]
                ELSE pairs[CHOOSE k \in hits : \A h \in hits : h <= k][2]]]

fill_constant(b, var, value) == [b EXCEPT ![var_dict[var]] = value]

\* -power_dict[(x, y)] / demand_dict[x]
Share(p, d, x, y) == RDiv(R(-p[<<x, y>>]), R(d[x]))

\* the coefficient matrix with the intensity equation of NSW1->QLD1 written on the
\* total emissions of VIC1
CoefficientMatrix_intensity_on_v(p, d) ==
    LET a0 == fill_row(Zeros2, 0, <<<<"s", R(1)>>, <<"v-s", R(-1)>>>>)
        a1 == fill_row(a0, 1, <<<<"q", R(1)>>, <<"n-q", R(-1)>>>>)
        a2 == fill_row(a1, 2, <<<<"t", R(1)>>, <<"v-t", R(-1)>>>>)
        a3 == fill_row(a2, 3, <<<<"n", R(1)>>, <<"v-n", R(-1)>>, <<"n-q", R(1)>>, <<"n-v", R(1)>>>>)
        a4 == fill_row(a3, 4, <<<<"v", R(1)>>, <<"v-n", R(1)>>, <<"n-v", R(-1)>>, <<"v-s", R(1)>>,
                                <<"v-t", R(1)>>>>)
        a5 == fill_row(a4, 5, <<<<"n-q", R(1)>>, <<"v", Share(p, d, "NSW1", "QLD1")>>>>)
        a6 == fill_row(a5, 6, <<<<"n-v", R(1)>>, <<"n", Share(p, d, "NSW1", "VIC1")>>>>)
        a7 == fill_row(a6, 7, <<<<"v-t", R(1)>>, <<"v", Share(p, d, "VIC1", "TAS1")>>>>)
        a8 == fill_row(a7, 8, <<<<"v-s", R(1)>>, <<"v", Share(p, d, "VIC1", "SA1")>>>>)
    IN  fill_row(a8, 9, <<<<"v-n", R(1)>>, <<"v", Share(p, d, "VIC1", "NSW1")>>>>)

\* lines 265-290
CoefficientMatrix(p, d) ==
    LET a0 == fill_row(Zeros2, 0, <<<<"s", R(1)>>, <<"v-s", R(-1)>>>>)
        a1 == fill_row(a0, 1, <<<<"q", R(1)>>, <<"n-q", R(-1)>>>>)
        a2 == fill_row(a1, 2, <<<<"t", R(1)>>, <<"v-t", R(-1)>>>>)
        a3 == fill_row(a2, 3, <<<<"n", R(1)>>, <<"v-n", R(-1)>>, <<"n-q", R(1)>>, <<"n-v", R(1)>>>>)
        a4 == fill_row(a3, 4, <<<<"v", R(1)>>, <<"v-n", R(1)>>, <<"n-v", R(-1)>>, <<"v-s", R(1)>>,
                                <<"v-t", R(1)>>>>)
        a5 == fill_row(a4, 5, <<<<"n-q", R(1)>>, <<"n", Share(p, d, "NSW1", "QLD1")>>>>)
        a6 == fill_row(a5, 6, <<<<"n-v", R(1)>>, <<"n", Share(p, d, "NSW1", "VIC1")>>>>)
        a7 == fill_row(a6, 7, <<<<"v-t", R(1)>>, <<"v", Share(p, d, "VIC1", "TAS1")>>>>)
        a8 == fill_row(a7, 8, <<<<"v-s", R(1)>>, <<"v", Share(p, d, "VIC1", "SA1")>>>>)
    IN  fill_row(a8, 9, <<<<"v-n", R(1)>>, <<"v", Share(p, d, "VIC1", "NSW1")>>>>)

\* the constant vector with the emission flow SA1->VIC1 subtracted from VIC1's constant
ConstantVector_outbound_sign(e) ==
    LET b0 == fill_constant(Zeros1, "s", RSub(e[K1("SA1")], e[<<"SA1", "VIC1">>]))
        b1 == fill_constant(b0, "q", RSub(e[K1("QLD1")], e[<<"QLD1", "NSW1">>]))
        b2 == fill_constant(b1, "t", RSub(e[K1("TAS1")], e[<<"TAS1", "VIC1">>]))
        b3 == fill_constant(b2, "n", RAdd(e[K1("NSW1")], e[<<"QLD1", "NSW1">>]))
        b4 == fill_constant(b3, "v", RAdd(RSub(e[K1("VIC1")], e[<<"SA1", "VIC1">>]),
                                          e[<<"TAS1", "VIC1">>]))
    IN  [i \in Idx |-> IF IsNaN(b4[i]) THEN R(0) ELSE b4[i]]

\* lines 293-308, the NaN of b cast to 0
ConstantVector(e) ==
    LET b0 == fill_constant(Zeros1, "s", RSub(e[K1("SA1")], e[<<"SA1", "VIC1">>]))
        b1 == fill_constant(b0, "q", RSub(e[K1("QLD1")], e[<<"QLD1", "NSW1">>]))
        b2 == fill_constant(b1, "t", RSub(e[K1("TAS1")], e[<<"TAS1", "VIC1">>]))
        b3 == fill_constant(b2, "n", RAdd(e[K1("NSW1")], e[<<"QLD1", "NSW1">>]))
        b4 == fill_constant(b3, "v", RAdd(RAdd(e[K1("VIC1")], e[<<"SA1", "VIC1">>]),
                                          e[<<"TAS1", "VIC1">>]))
    IN  [i \in Idx |-> IF IsNaN(b4[i]) THEN R(0) ELSE b4[i]]

MatrixFinite(a) == \A i \in Idx, j \in Idx : IsFinite(a[i][j])

\* Gauss-Jordan elimination of the augmented matrix m (column Dim is b) from column k
\* on; m = m makes TLC evaluate the matrix of a step once
RECURSIVE Eliminate(_, _)
Eliminate(m, k) ==
    IF k = Dim THEN [singular |-> FALSE, x |-> [i \in Idx |-> m[i][Dim]]]
    ELSE LET cand == {i \in k..(Dim - 1) : m[i][k][1] # 0}
         IN  IF cand = {} THEN [singular |-> TRUE, x |-> Zeros1]
             ELSE LET p == CHOOSE i \in cand : \A j \in cand : i <= j
                      prow == [j \in 0..Dim |-> RDiv(m[p][j], m[p][k])]
                      sw == [i \in Idx |-> IF i = k THEN prow ELSE IF i = p THEN m[k] ELSE m[i]]
                      m2 == [i \in Idx |->
                                IF i = k \/ sw[i][k][1] = 0 THEN sw[i]
                                ELSE [j \in 0..Dim |-> RSub(sw[i][j], RMul(sw[i][k], prow[j]))]]
                  IN  IF m2 = m2 THEN Eliminate(m2, k + 1) ELSE Eliminate(m2, k + 1)

\* np.linalg.solve(a, b): x with a x = b, LinAlgError for a singular a.  For an a with
\* NaN or infinite entries LAPACK either meets an exactly zero pivot (LinAlgError) or
\* returns NaN; lapack_raises is which.
linalg_solve(a, b, lapack_raises) ==
    IF MatrixFinite(a)
    THEN Eliminate([i \in Idx |-> [j \in 0..Dim |-> IF j = Dim THEN b[i] ELSE a[i][j]]], 0)
    ELSE [singular |-> lapack_raises, x |-> [i \in Idx |-> NaN]]

Frame(rows) == [is_none |-> FALSE, rows |-> rows]

NoFrame == [is_none |-> TRUE, rows |-> <<>>]

FlowRow(from, to, value) == [index |-> <<from, to>>, EMISSIONS |-> value]

\* the frame of emission flows with the components of NSW1->QLD1 and VIC1->NSW1 exchanged
EmissionFlows_exchanged(sol, e) ==
    (IF sol.singular THEN <<>>
     ELSE <<FlowRow("NSW1", "QLD1", sol.x[5]), FlowRow("VIC1", "NSW1", sol.x[6]),
            FlowRow("NSW1", "VIC1", sol.x[7]), FlowRow("VIC1", "SA1", sol.x[8]),
            FlowRow("VIC1", "TAS1", sol.x[9])>>)
    \o <<FlowRow("QLD1", "NSW1", e[<<"QLD1", "NSW1">>]),
          FlowRow("TAS1", "VIC1", e[<<"TAS1", "VIC1">>]),
          FlowRow("SA1", "VIC1", e[<<"SA1", "VIC1">>])>>

\* the frame of emission flows with SA1->VIC1 reported only when the solve returned
EmissionFlows_two_simple(sol, e) ==
    (IF sol.singular THEN <<>>
     ELSE <<FlowRow("NSW1", "QLD1", sol.x[6]), FlowRow("VIC1", "NSW1", sol.x[5]),
            FlowRow("NSW1", "VIC1", sol.x[7]), FlowRow("VIC1", "SA1", sol.x[8]),
            FlowRow("VIC1", "TAS1", sol.x[9]), FlowRow("SA1", "VIC1", sol.x[0])>>)
    \o <<FlowRow("QLD1", "NSW1", e[<<"QLD1", "NSW1">>]),
          FlowRow("TAS1", "VIC1", e[<<"TAS1", "VIC1">>])>>

\* lines 319-338: the frame of emission flows, in the order the dictionary is filled
EmissionFlows(sol, e) ==
    (IF sol.singular THEN <<>>
     ELSE <<FlowRow("NSW1", "QLD1", sol.x[6]), FlowRow("VIC1", "NSW1", sol.x[5]),
            FlowRow("NSW1", "VIC1", sol.x[7]), FlowRow("VIC1", "SA1", sol.x[8]),
            FlowRow("VIC1", "TAS1", sol.x[9])>>)
    \o <<FlowRow("QLD1", "NSW1", e[<<"QLD1", "NSW1">>]),
          FlowRow("TAS1", "VIC1", e[<<"TAS1", "VIC1">>]),
          FlowRow("SA1", "VIC1", e[<<"SA1", "VIC1">>])>>

\* solve_flows that goes on without a solution when nem_demand raises
solve_flows_run_except_pass(emissions_di, ic_di, lapack_raises, t) ==
    LET p == power(emissions_di, ic_di)
        e == emissions(emissions_di, p)
    IN  IF nem_demand_raises(p)
        THEN [frame |-> Frame(EmissionFlows([singular |-> TRUE, x |-> Zeros1], e)),
              log |-> <<<<"print", "solve_flows", t>>>>]
        ELSE LET d == nem_demand(p)
                 sol == linalg_solve(CoefficientMatrix(p, d), ConstantVector(e), lapack_raises)
             IN  [frame |-> Frame(EmissionFlows(sol, e)),
                  log |-> IF sol.singular THEN <<<<"warning", "solve_flows", t>>>> ELSE <<>>]

\* solve_flows: the frame returned (None when nem_demand raises) and what is reported
\* on the way: the print of line 262, the logger.warning of line 316
solve_flows_run(emissions_di, ic_di, lapack_raises, t) ==
    LET p == power(emissions_di, ic_di)
        e == emissions(emissions_di, p)
    IN  IF nem_demand_raises(p)
        THEN [frame |-> NoFrame, log |-> <<<<"print", "solve_flows", t>>>>]
        ELSE LET d == nem_demand(p)
                 sol == linalg_solve(CoefficientMatrix(p, d), ConstantVector(e), lapack_raises)
             IN  [frame |-> Frame(EmissionFlows(sol, e)),
                  log |-> IF sol.singular THEN <<<<"warning", "solve_flows", t>>>> ELSE <<>>]

solve_flows(emissions_di, ic_di, lapack_raises) ==
    solve_flows_run(emissions_di, ic_di, lapack_raises, 0).frame

----------------------------------------------------------------------------
(* region_flows, calculate_emission_flows, calc_day *)

GeneratedOf(r) == r.generated

\* pandas sum of floats: NaN is skipped
RSumOver(S, f(_)) ==
    LET F[T \in SUBSET S] ==
            IF T = {} THEN R(0)
            ELSE LET e == CHOOSE x \in T : TRUE
                 IN  IF IsNaN(f(e)) THEN F[T \ {e}] ELSE RAdd(f(e), F[T \ {e}])
    IN  F[S]

\* pd.concat([dx, dy]) of region_flows: for every (from, to) of the day's rows the
\* clipped sum indexed (to, from) and the clipped negated sum indexed (from, to)
RegionFlowRows(ic) ==
    LET g == GroupedFlows(ic)
    IN  {[interconnector_region_to |-> k[2], interconnector_region_from |-> k[1],
          generated |-> Clip(g[k]), part |-> "dx"] : k \in DOMAIN g}
        \cup {[interconnector_region_to |-> k[1], interconnector_region_from |-> k[2],
                generated |-> Clip(-g[k]), part |-> "dy"] : k \in DOMAIN g}

region_flows(ic, day) ==
    LET f == RegionFlowRows(ic)
        tos == {r.interconnector_region_to : r \in f}
        froms == {r.interconnector_region_from : r \in f}
    IN  {[trading_interval |-> day, network_id |-> "NEM", network_region |-> reg,
          energy_imports |-> SumOver({r \in f : r.interconnector_region_to = reg}, GeneratedOf),
          energy_exports |-> SumOver({r \in f : r.interconnector_region_from = reg}, GeneratedOf)]
         : reg \in tos \cup froms}

\* dx_emissions[dx_emissions.trading_interval == dt]
EmissionsAt(gen, t) == {r \in calc_emissions(gen) : r.trading_interval = t}

\* dx_ic[dx_ic.index == dt]
InterconnectorsAt(ic, t) ==
    LET At(r) == r.trading_interval = t IN SelectSeq(ic, At)

FirstInterval(gen) == gen[1].trading_interval

LastInterval(gen) == gen[Len(gen)].trading_interval

\* pd.concat(results_dict), reset_index, rename: the rows of the results that are not
\* None, each with its interval
RECURSIVE ConcatResults(_, _, _)
ConcatResults(res, t, last) ==
    IF t > last THEN <<>>
    ELSE [i \in DOMAIN res[t].rows |->
            [trading_interval |-> t, network_region |-> res[t].rows[i].index,
             EMISSIONS |-> res[t].rows[i].EMISSIONS]]
         \o ConcatResults(res, t + 1, last)

EmissionsValueOf(r) == r.EMISSIONS

\* flow_series_clean with the two group sums taken over the wrong end of the edge
FlowSeriesClean_swapped(flow_series, day) ==
    LET rows == Range(flow_series)
        froms == {r.network_region[1] : r \in rows}
        tos == {r.network_region[2] : r \in rows}
    IN  {[trading_interval |-> day, network_id |-> "NEM", network_region |-> reg,
          emissions_exports |->
              IF reg \in tos
              THEN RSumOver({r \in rows : r.network_region[2] = reg}, EmissionsValueOf)
              ELSE NaN,
          emissions_imports |->
              IF reg \in froms
              THEN RSumOver({r \in rows : r.network_region[1] = reg}, EmissionsValueOf)
              ELSE NaN] : reg \in froms \cup tos}

\* flow_series_clean: one row per region that is a source or a destination of a row,
\* NaN where the region is in one of the two group sums only
FlowSeriesClean(flow_series, day) ==
    LET rows == Range(flow_series)
        froms == {r.network_region[1] : r \in rows}
        tos == {r.network_region[2] : r \in rows}
    IN  {[trading_interval |-> day, network_id |-> "NEM", network_region |-> reg,
          emissions_exports |->
              IF reg \in froms
              THEN RSumOver({r \in rows : r.network_region[1] = reg}, EmissionsValueOf)
              ELSE NaN,
          emissions_imports |->
              IF reg \in tos
              THEN RSumOver({r \in rows : r.network_region[2] = reg}, EmissionsValueOf)
              ELSE NaN] : reg \in froms \cup tos}

\* an outer merge: a region on one side only gets a row with the other side missing
Merge_outer(clean, energy) ==
    {[trading_interval |-> c.trading_interval, network_id |-> c.network_id,
      network_region |-> c.network_region,
      emissions_exports |-> c.emissions_exports, emissions_imports |-> c.emissions_imports,
      energy_imports |-> en.energy_imports, energy_exports |-> en.energy_exports]
     : <<c, en>> \in {x \in clean \X energy :
                        /\ x[1].trading_interval = x[2].trading_interval
                        /\ x[1].network_id = x[2].network_id
                        /\ x[1].network_region = x[2].network_region}}
    \cup {[trading_interval |-> en.trading_interval, network_id |-> en.network_id,
            network_region |-> en.network_region,
            emissions_exports |-> NaN, emissions_imports |-> NaN,
            energy_imports |-> en.energy_imports, energy_exports |-> en.energy_exports]
           : en \in {x \in energy : \A c \in clean : c.network_region # x.network_region}}
    \cup {[trading_interval |-> c.trading_interval, network_id |-> c.network_id,
            network_region |-> c.network_region,
            emissions_exports |-> c.emissions_exports,
            emissions_imports |-> c.emissions_imports,
            energy_imports |-> -1, energy_exports |-> -1]
           : c \in {x \in clean : \A en \in energy : en.network_region # x.network_region}}

\* a merge that joins on the day and the network only
Merge_on_day(clean, energy) ==
    {[trading_interval |-> c.trading_interval, network_id |-> c.network_id,
      network_region |-> c.network_region,
      emissions_exports |-> c.emissions_exports, emissions_imports |-> c.emissions_imports,
      energy_imports |-> en.energy_imports, energy_exports |-> en.energy_exports]
     : <<c, en>> \in {x \in clean \X energy :
                        /\ x[1].trading_interval = x[2].trading_interval
                        /\ x[1].network_id = x[2].network_id}}

\* flow_series_clean.merge(energy_flows, left_index=True, right_index=True)
Merge(clean, energy) ==
    {[trading_interval |-> c.trading_interval, network_id |-> c.network_id,
      network_region |-> c.network_region,
      emissions_exports |-> c.emissions_exports, emissions_imports |-> c.emissions_imports,
      energy_imports |-> en.energy_imports, energy_exports |-> en.energy_exports]
     : <<c, en>> \in {x \in clean \X energy :
                        /\ x[1].trading_interval = x[2].trading_interval
                        /\ x[1].network_id = x[2].network_id
                        /\ x[1].network_region = x[2].network_region}}

DayFrame(rows) == [is_none |-> FALSE, rows |-> rows]

NoDayFrame == [is_none |-> TRUE, rows |-> {}]

AllNone(res) == \A t \in DOMAIN res : res[t].is_none

\* calc_day from line 377 on: None when pd.concat raises (every result is None)
calc_day_aggregate(res, gen, ic, day) ==
    IF AllNone(res) THEN NoDayFrame
    ELSE LET flow_series == ConcatResults(res, FirstInterval(gen), LastInterval(gen))
         IN  DayFrame(Merge(FlowSeriesClean(flow_series, day), region_flows(ic, day)))

----------------------------------------------------------------------------
(* insert_flows and the aggregate table at_network_flows *)

\* calls of insert_flows in one behaviour
MaxClock == 3

\* the two runs that call insert_flows concurrently
Runs == {1, 2}

\* the column order of the persisted records
columns ==
    <<"trading_interval", "network_id", "network_region", "energy_imports", "energy_exports",
      "emissions_imports", "emissions_exports", "market_value_imports",
      "market_value_exports", "created_by", "created_at", "updated_at">>

\* AggregateNetworkFlows: the columns declared primary_key=True
PrimaryKey == {"trading_interval", "network_id", "network_region"}

AggregateNetworkFlows == [columns |-> Range(columns), primary_key |-> PrimaryKey]

\* compile_upsert that leaves out the created_at exception
compile_upsert_every_column(tbl) ==
    [conflict |-> tbl.primary_key, updates |-> tbl.columns]

\* compile_upsert: ON CONFLICT (<primary key>) DO UPDATE SET c=EXCLUDED.c for every
\* column c of the table whose name is not created_at
compile_upsert(tbl) ==
    [conflict |-> tbl.primary_key, updates |-> {c \in tbl.columns : c \notin {"created_at"}}]

\* build_insert_query(AggregateNetworkFlows, [...]): the statement of the bulk upsert,
\* keyed on the primary key; every non-key column is updated from the incoming row
\* except created_at
build_insert_query(tbl, update_cols) ==
    [conflict |-> tbl.primary_key,
     updates |-> (tbl.columns \ tbl.primary_key) \ {"created_at"}]

\* the six columns insert_flows names in its call of build_insert_query
UpdateCols ==
    {"energy_imports", "energy_exports", "emissions_imports", "emissions_exports",
     "market_value_imports", "market_value_exports"}

KeyOf(row, stmt) == [c \in stmt.conflict |-> row[c]]

\* INSERT ... ON CONFLICT (key) DO NOTHING: the stored row wins
Upsert_do_nothing(rows, row, stmt) ==
    IF \E s \in rows : KeyOf(s, stmt) = KeyOf(row, stmt) THEN rows ELSE rows \cup {row}

\* INSERT ... ON CONFLICT (key) DO UPDATE SET c=EXCLUDED.c, ...: one incoming row
Upsert(rows, row, stmt) ==
    LET hit == {s \in rows : KeyOf(s, stmt) = KeyOf(row, stmt)}
    IN  IF hit = {} THEN rows \cup {row}
        ELSE (rows \ hit)
             \cup {[c \in DOMAIN s |-> IF c \in stmt.updates THEN row[c] ELSE s[c]] : s \in hit}

\* the whole batch of one statement
RECURSIVE UpsertAll(_, _, _)
UpsertAll(rows, recs, stmt) ==
    IF recs = <<>> THEN rows
    ELSE UpsertAll(Upsert(rows, Head(recs), stmt), Tail(recs), stmt)

\* lines 430-458: reset_index, the audit columns, the zero market values, the column
\* order, to_dict("records")
ToRecords(frame, now) ==
    [i \in DOMAIN frame |->
        [c \in Range(columns) |->
            CASE c = "created_by" -> "opennem.worker.emissions"
              [] c = "created_at" -> ""
              [] c = "updated_at" -> now
              [] c \in {"market_value_imports", "market_value_exports"} -> 0
              [] OTHER -> frame[i][c]]]

NoTransaction == [open |-> FALSE, locked |-> {}]

\* the keys another run's open transaction has written and not yet committed
LockedByOthers(w) == UNION {conn[o].locked : o \in Runs \ {w}}

StoreIdle ==
    /\ ins_pc = [w \in Runs |-> "idle"]
    /\ flow_results = [w \in Runs |-> <<>>]
    /\ records_to_store = [w \in Runs |-> <<>>]
    /\ conn = [w \in Runs |-> NoTransaction]
    /\ ret = [w \in Runs |-> -1]
    /\ clock = 0
    /\ commits = <<>>

----------------------------------------------------------------------------
(* utils.http: the module-level session and its transport adapters *)

DEFAULT_TIMEOUT == 5

DEFAULT_RETRIES == 2

\* timeout=None
NoTimeout == 0

Prefixes == {"https://", "http://"}

Methods == {"HEAD", "GET", "OPTIONS", "POST"}

\* Retry(0, read=False): what an HTTPAdapter built without max_retries carries
NoRetry == [total |-> 0, status_forcelist |-> {}, allowed_methods |-> {"HEAD", "GET", "OPTIONS"}]

retry_strategy ==
    [total |-> DEFAULT_RETRIES,
     status_forcelist |-> {403, 429, 500, 502, 503, 504},
     allowed_methods |-> {"HEAD", "GET", "OPTIONS"}]

\* requests.adapters.HTTPAdapter(max_retries=...): send() passes the timeout on as given
HTTPAdapter(max_retries) ==
    [class |-> "HTTPAdapter", timeout |-> NoTimeout, max_retries |-> max_retries]

\* TimeoutHTTPAdapter(): self.timeout = DEFAULT_TIMEOUT, no max_retries given
TimeoutHTTPAdapter ==
    [class |-> "TimeoutHTTPAdapter", timeout |-> DEFAULT_TIMEOUT, max_retries |-> NoRetry]

\* adapter.send(request, timeout=timeout): the timeout the request goes out with
AdapterSend(adapter, timeout) ==
    IF adapter.class = "TimeoutHTTPAdapter" /\ timeout = NoTimeout
    THEN adapter.timeout
    ELSE timeout

adapter_timeout == TimeoutHTTPAdapter

adapter_retry == HTTPAdapter(retry_strategy)

\* requests.Session(): a plain HTTPAdapter is mounted for both prefixes
Session == [p \in Prefixes |-> HTTPAdapter(NoRetry)]

\* session.mount(prefix, adapter): self.adapters[prefix] = adapter
mount(session, prefix, adapter) == [session EXCEPT ![prefix] = adapter]

\* the mount statements of the module, in the order the import executes them
ModuleMounts ==
    << <<"https://", adapter_timeout>>, <<"http://", adapter_timeout>>,
       <<"https://", adapter_retry>>, <<"http://", adapter_retry>> >>

Imported == Len(ModuleMounts) + 1

NoRequest == [method |-> "", prefix |-> "", timeout |-> NoTimeout, sent_timeout |-> NoTimeout,
              max_retries |-> NoRetry, retries_left |-> 0]

HttpIdle ==
    /\ adapters = Session
    /\ http_pc = 1
    /\ http_req = NoRequest
    /\ http_resp = 0

----------------------------------------------------------------------------
(* recordreactor.engine: run_milestone_engine *)

_DEFAULT_NUM_TASKS == 14

\* no value: None for an interval, a missing interval_size or data_first_seen
NoInterval == 0

EngineIdle ==
    /\ eng_pc = "idle"
    /\ asyncio_imported = FALSE
    /\ dry_run = FALSE
    /\ networks = <<>>
    /\ start_interval = NoInterval
    /\ end_interval_arg = NoInterval
    /\ end_interval = NoInterval
    /\ metrics = {}
    /\ num_tasks = 0
    /\ network_i = 0
    /\ current_interval = NoInterval
    /\ tasks = <<>>
    /\ created = {}
    /\ awaited = {}

----------------------------------------------------------------------------
(* crawl: run_crawl *)

\* a value that is None, a time, a version string
None == <<"None", 0>>

Time(t) == <<"datetime", t>>

Version(v) == <<"version", v>>

CrawlStatTypes == {"version", "last_crawled", "latest_processed", "server_latest"}

\* ControllerReturn: server_latest may be None; None stands for a processor that
\* returns nothing
NoControllerReturn == [is_none |-> TRUE, server_latest |-> None, errors |-> 0]

\* a crawler that never ran: nothing processed, no metadata
NewCrawler ==
    [name |-> "au.nem.dispatch", version |-> Version(2), last_processed |-> None,
     server_latest |-> None]

NoMeta == [k \in CrawlStatTypes |-> None]

CrawlIdle ==
    /\ crawl_pc = "idle"
    /\ crawler = NewCrawler
    /\ crawl_meta = NoMeta
    /\ cr = NoControllerReturn
    /\ now_nem_time = 0

ExtIdle ==
    /\ HttpIdle
    /\ EngineIdle
    /\ CrawlIdle

----------------------------------------------------------------------------
(* Specification of interconnector_dict applied to one interval's rows *)

GenVals == {-40, 40, 150}

IcRow == [interconnector_region_from : Regions, interconnector_region_to : Regions,
          generated : GenVals]

IcRows == {r \in IcRow : <<r.interconnector_region_from, r.interconnector_region_to>> \in Edges}

SeqsUpTo(S, n) == UNION {[1..m -> S] : m \in 0..n}

EmptyDict == <<>>

DayIdle ==
    /\ days = 0
    /\ current_day = 0
    /\ df_gen = <<>>
    /\ df_ic = <<>>
    /\ dt = 0
    /\ results = <<>>
    /\ emissions_day = NoDayFrame
    /\ calls = <<>>
    /\ insert_calls = <<>>
    /\ table = {}
    /\ log = <<>>
    /\ exc = ""
    /\ StoreIdle
    /\ ExtIdle

InitIC ==
    /\ pc = "interconnector_dict"
    /\ interconnector_di \in SeqsUpTo(IcRows, MaxRows)
    /\ ic_dict = EmptyDict
    /\ power_dict = EmptyDict
    /\ demand_dict = EmptyDict
    /\ DayIdle

CallInterconnectorDict ==
    /\ pc = "interconnector_dict"
    /\ ic_dict' = interconnector_dict(interconnector_di)
    /\ pc' = "returned"
    /\ UNCHANGED <<interconnector_di, power_dict, demand_dict, day_vars, store_vars, ext_vars>>

NextIC == CallInterconnectorDict

SpecIC == InitIC /\ [][NextIC]_vars

\* generated(A->B) of one interval: the sum over its rows from A to B
Generated(rows, a, b) ==
    LET g == GroupedFlows(rows)
    IN  IF <<a, b>> \in DOMAIN g THEN g[<<a, b>>] ELSE 0

(* C1: every entry (A,B) of the dictionary returned by interconnector_dict is the
   clipped net flow max(0, generated(A->B) - generated(B->A)) of the interval. *)
C1_NetFlowPerPair ==
    pc = "returned" =>
        \A k \in DOMAIN ic_dict :
            ic_dict[k] = Clip(Generated(interconnector_di, k[1], k[2])
                              - Generated(interconnector_di, k[2], k[1]))

(* C2: no entry of the dictionary returned by interconnector_dict is negative, and of
   the two entries (A,B) and (B,A) of a pair at most one is positive. *)
C2_OneDirectionPositive ==
    pc = "returned" =>
        \A k \in DOMAIN ic_dict :
            /\ ic_dict[k] >= 0
            /\ <<k[2], k[1]>> \in DOMAIN ic_dict =>
                    (ic_dict[k] = 0 \/ ic_dict[<<k[2], k[1]>>] = 0)

----------------------------------------------------------------------------
(* Specification of nem_demand applied to a power dictionary *)

PowerKeys == {K1(r) : r \in Regions} \cup Edges

\* the dictionaries with every key, at most MaxVaried of them not 0,
\* and those dictionaries with one key removed
PowerDicts ==
    LET full == UNION {[S -> 1..MaxVal] : S \in {T \in SUBSET PowerKeys : Cardinality(T) <= MaxVaried}}
        Fill(f) == [k \in PowerKeys |-> IF k \in DOMAIN f THEN f[k] ELSE 0]
        Drop(f, k) == [j \in PowerKeys \ {k} |-> f[j]]
    IN  {Fill(f) : f \in full}
        \cup {Drop(Fill(f), k) : f \in {g \in full : Cardinality(DOMAIN g) <= 1}, k \in PowerKeys}

InitDemand ==
    /\ pc = "nem_demand"
    /\ power_dict \in PowerDicts
    /\ demand_dict = EmptyDict
    /\ interconnector_di = <<>>
    /\ ic_dict = EmptyDict
    /\ DayIdle

CallNemDemand ==
    /\ pc = "nem_demand"
    /\ IF nem_demand_raises(power_dict)
       THEN pc' = "raised" /\ UNCHANGED demand_dict
       ELSE pc' = "returned" /\ demand_dict' = nem_demand(power_dict)
    /\ UNCHANGED <<interconnector_di, ic_dict, power_dict, day_vars, store_vars, ext_vars>>

NextDemand == CallNemDemand

SpecDemand == InitDemand /\ [][NextDemand]_vars

C3_Neighbours ==
    [r \in Regions |->
        CASE r = "NSW1" -> {"QLD1", "VIC1"}
          [] r = "QLD1" -> {"NSW1"}
          [] r = "SA1" -> {"VIC1"}
          [] r = "TAS1" -> {"VIC1"}
          [] r = "VIC1" -> {"NSW1", "SA1", "TAS1"}]

(* C3: for a power dictionary holding the generation of all five regions and all
   directed edge flows, nem_demand returns for each region R exactly generation(R)
   plus the entries keyed (X,R) minus the entries keyed (R,X) over R's neighbours X. *)
C3_DemandBalance ==
    (pc = "returned" /\ DOMAIN demand_dict # {}) =>
        /\ DOMAIN demand_dict = Regions
        /\ \A r \in Regions :
            LET In(x) == power_dict[<<x, r>>]
                Out(x) == power_dict[<<r, x>>]
            IN  demand_dict[r] = power_dict[K1(r)] + SumOver(C3_Neighbours[r], In)
                                 - SumOver(C3_Neighbours[r], Out)

\* a hub region whose demand is its generation plus one inbound and minus one outbound flow
C3_Witness ==
    /\ pc = "returned"
    /\ DOMAIN demand_dict = Regions
    /\ power_dict[<<"SA1", "VIC1">>] > 0
    /\ power_dict[<<"VIC1", "NSW1">>] > power_dict[<<"SA1", "VIC1">>]
    /\ demand_dict["VIC1"] = power_dict[<<"SA1", "VIC1">>] - power_dict[<<"VIC1", "NSW1">>]

----------------------------------------------------------------------------
(* The day range: run_emission_update_day, run_and_store_emission_flows, calc_day *)

\* What the storage holds for one interval: which regions have generation rows
\* ("" all five, a region: all but that one, "all": none), the energy generated in
\* NSW1, the flow telemetered on the NSW1->QLD1 interconnector, and the interconnector
\* rows: "all" the four links of the topology, "snowy" these and a row SNOWY1->NSW1
\* from a region outside the five, "no_nq" all but the NSW1->QLD1 row.
Profiles ==
    {[absent |-> "", nsw |-> 10, nq |-> 5, links |-> "all"],
     [absent |-> "", nsw |-> 10, nq |-> -5, links |-> "all"],
     [absent |-> "", nsw |-> 2, nq |-> 0, links |-> "all"],
     [absent |-> "", nsw |-> 0, nq |-> -5, links |-> "all"],
     [absent |-> "NSW1", nsw |-> 10, nq |-> 5, links |-> "all"],
     [absent |-> "SA1", nsw |-> 10, nq |-> 5, links |-> "all"],
     [absent |-> "all", nsw |-> 10, nq |-> 5, links |-> "all"],
     [absent |-> "", nsw |-> 10, nq |-> 5, links |-> "snowy"],
     [absent |-> "", nsw |-> 10, nq |-> 5, links |-> "no_nq"]}

GenRow(t, region, fueltech, energy, em) ==
    [trading_interval |-> t, network_region |-> region, fueltech_id |-> fueltech,
     energy |-> energy, emissions |-> em]

\* rows of load_energy_intervals for interval t
GenRowsOf(t, prof) ==
    LET Keep(r) == prof.absent # "all" /\ r.network_region # prof.absent
    IN  SelectSeq(<<GenRow(t, "NSW1", "coal_black", prof.nsw, prof.nsw),
                    GenRow(t, "QLD1", "coal_black", 2, 1),
                    GenRow(t, "QLD1", "coal_black", 3, 0),
                    GenRow(t, "SA1", "gas_ccgt", 4, 1),
                    GenRow(t, "TAS1", "hydro", 2, 0),
                    GenRow(t, "VIC1", "coal_brown", 6, 6),
                    GenRow(t, "VIC1", "gas_ocgt", 4, 2)>>, Keep)

IcRowAt(t, from, to, generated) ==
    [trading_interval |-> t, interconnector_region_from |-> from,
     interconnector_region_to |-> to, generated |-> generated]

\* rows of load_interconnector_intervals for interval t
IcRowsOf(t, prof) ==
    (IF prof.links = "no_nq" THEN <<>> ELSE <<IcRowAt(t, "NSW1", "QLD1", prof.nq)>>)
    \o <<IcRowAt(t, "VIC1", "NSW1", 2), IcRowAt(t, "VIC1", "SA1", 4),
          IcRowAt(t, "TAS1", "VIC1", 3)>>
    \o (IF prof.links = "snowy" THEN <<IcRowAt(t, "SNOWY1", "NSW1", 1)>> ELSE <<>>)

DayData == [1..MaxIntervals -> Profiles]

\* the intervals of a day that storage holds rows for follow each other directly
\* (gap 0) or with one interval without any row between two of them (gap 1)
Gaps == {0, 1}

\* the timestamp of the k-th interval that storage holds rows for
Stamp(k, gap) == k + gap * (k - 1)

RECURSIVE LoadedGen(_, _, _)
LoadedGen(d, k, gap) ==
    IF k > MaxIntervals THEN <<>>
    ELSE GenRowsOf(Stamp(k, gap), d[k]) \o LoadedGen(d, k + 1, gap)

RECURSIVE LoadedIc(_, _, _)
LoadedIc(d, k, gap) ==
    IF k > MaxIntervals THEN <<>>
    ELSE IcRowsOf(Stamp(k, gap), d[k]) \o LoadedIc(d, k + 1, gap)

\* the argument day
RunDay == MaxDays + 1

\* date_min = day - timedelta(days=days)
date_min == RunDay - days

InitDay ==
    /\ pc = "loop"
    /\ days \in 0..MaxDays
    /\ current_day = RunDay
    /\ df_gen = <<>>
    /\ df_ic = <<>>
    /\ dt = 0
    /\ results = <<>>
    /\ emissions_day = NoDayFrame
    /\ calls = <<>>
    /\ insert_calls = <<>>
    /\ table = {}
    /\ log = <<>>
    /\ exc = ""
    /\ StoreIdle
    /\ ExtIdle
    /\ interconnector_di = <<>>
    /\ ic_dict = EmptyDict
    /\ power_dict = EmptyDict
    /\ demand_dict = EmptyDict

\* lines 522-525: the loop test holds, run_and_store_emission_flows is called
RunDayLoop ==
    /\ pc = "loop"
    /\ current_day >= date_min
    /\ log' = Append(log, <<"info", "run_emission_update_day", current_day>>)
    /\ calls' = Append(calls, current_day)
    /\ pc' = "calc_day"
    /\ UNCHANGED <<days, current_day, df_gen, df_ic, dt, results, emissions_day,
                   insert_calls, table, exc, pure_vars, store_vars, ext_vars>>

\* line 522: the loop test fails, run_emission_update_day returns
RunDayReturn ==
    /\ pc = "loop"
    /\ current_day < date_min
    /\ pc' = "returned"
    /\ UNCHANGED <<day_vars, pure_vars, store_vars, ext_vars>>

\* lines 371-373 and 352-356: the two queries, then the first timestamp is read.
\* A failing query raises; nothing between here and the caller of
\* run_emission_update_day catches it, nor the IndexError of iloc[0] on no rows.
LoadDay ==
    /\ pc = "calc_day"
    /\ \/ /\ pc' = "raised"
          /\ exc' = "DataLoadError"
          /\ UNCHANGED <<df_gen, df_ic, dt, results>>
       \/ \E d \in DayData, gap \in Gaps :
            /\ df_gen' = LoadedGen(d, 1, gap)
            /\ df_ic' = LoadedIc(d, 1, gap)
            /\ IF df_gen' = <<>>
               THEN pc' = "raised" /\ exc' = "IndexError" /\ UNCHANGED <<dt, results>>
               ELSE /\ pc' = "calculate_emission_flows"
                    /\ dt' = FirstInterval(df_gen')
                    /\ results' = <<>>
                    /\ UNCHANGED exc
    /\ UNCHANGED <<days, current_day, emissions_day, calls, insert_calls, table, log,
                   pure_vars, store_vars, ext_vars>>

\* a turn of the interval loop that moves on by two steps
IntervalStep_two_steps ==
    /\ pc = "calculate_emission_flows"
    /\ dt <= LastInterval(df_gen)
    /\ \E lapack_raises \in BOOLEAN :
        LET emissions_di == EmissionsAt(df_gen, dt)
            ic_di == InterconnectorsAt(df_ic, dt)
            run == solve_flows_run(emissions_di, ic_di, lapack_raises, dt)
        IN  /\ results' = (dt :> run.frame) @@ results
            /\ log' = log \o run.log
    /\ dt' = dt + 2
    /\ UNCHANGED <<pc, days, current_day, df_gen, df_ic, emissions_day, calls, insert_calls,
                   table, exc, pure_vars, store_vars, ext_vars>>

\* lines 357-362: one turn of the interval loop
IntervalStep ==
    /\ pc = "calculate_emission_flows"
    /\ dt <= LastInterval(df_gen)
    /\ \E lapack_raises \in BOOLEAN :
        LET emissions_di == EmissionsAt(df_gen, dt)
            ic_di == InterconnectorsAt(df_ic, dt)
            run == solve_flows_run(emissions_di, ic_di, lapack_raises, dt)
        IN  /\ results' = (dt :> run.frame) @@ results
            /\ log' = log \o run.log
    /\ dt' = dt + 1
    /\ UNCHANGED <<pc, days, current_day, df_gen, df_ic, emissions_day, calls, insert_calls,
                   table, exc, pure_vars, store_vars, ext_vars>>

\* lines 357, 364, 377-423: the loop ends, calc_day aggregates and returns
CalcDayReturn ==
    /\ pc = "calculate_emission_flows"
    /\ dt > LastInterval(df_gen)
    /\ emissions_day' = calc_day_aggregate(results, df_gen, df_ic, current_day)
    /\ log' = IF AllNone(results) THEN Append(log, <<"error", "calc_day", current_day>>) ELSE log
    /\ pc' = "run_and_store_emission_flows"
    /\ UNCHANGED <<days, current_day, df_gen, df_ic, dt, results, calls, insert_calls, table,
                   exc, pure_vars, store_vars, ext_vars>>

\* lines 499-507 and 527.  `not emissions_day` is True for None (warning, return, next
\* day); for a DataFrame, empty or not, pandas raises ValueError (the truth value of
\* a DataFrame is ambiguous), so insert_flows is never reached.
StoreDay ==
    /\ pc = "run_and_store_emission_flows"
    /\ IF emissions_day.is_none
       THEN /\ log' = Append(log, <<"warning", "run_and_store_emission_flows", current_day>>)
            /\ current_day' = current_day - 1
            /\ pc' = "loop"
            /\ df_gen' = <<>>
            /\ df_ic' = <<>>
            /\ dt' = 0
            /\ results' = <<>>
            /\ UNCHANGED exc
       ELSE /\ pc' = "raised"
            /\ exc' = "ValueError"
            /\ UNCHANGED <<log, current_day, df_gen, df_ic, dt, results>>
    /\ UNCHANGED <<days, emissions_day, calls, insert_calls, table, pure_vars, store_vars, ext_vars>>

Next ==
    \/ RunDayLoop
    \/ RunDayReturn
    \/ LoadDay
    \/ IntervalStep
    \/ CalcDayReturn
    \/ StoreDay

Spec == InitDay /\ [][Next]_vars

----------------------------------------------------------------------------
(* Properties of the day range *)

DayIntervals == IF df_gen = <<>> THEN {} ELSE FirstInterval(df_gen)..LastInterval(df_gen)

\* the generation rows of interval t lack a region
MissingGeneration(t) ==
    \E reg \in Regions :
        \A i \in DOMAIN df_gen :
            ~(df_gen[i].trading_interval = t /\ df_gen[i].network_region = reg)

Logged(entry) == \E i \in DOMAIN log : log[i] = entry

\* the linear solve of interval t raised
SolveFailed(t) == Logged(<<"warning", "solve_flows", t>>)

\* interval t has a solution of the linear system
Solved(t) == t \in DOMAIN results /\ ~results[t].is_none /\ ~SolveFailed(t)

CalcDayReturned == pc = "run_and_store_emission_flows"

\* the result rows of the intervals outside excl, as (interval, row number)
CountedRows(excl) == {<<t, i>> \in (DOMAIN results \ excl) \X (1..8) : i \in DOMAIN results[t].rows}

ResultValue(x) == results[x[1]].rows[x[2]].EMISSIONS

\* the sum of the emission flows of the intervals outside excl on the edges whose
\* end number side (1 source, 2 destination) is reg; NaN (missing) if there is none
EmissionsSum(reg, side, excl) ==
    LET rows == {x \in CountedRows(excl) : results[x[1]].rows[x[2]].index[side] = reg}
    IN  IF rows = {} THEN NaN ELSE RSumOver(rows, ResultValue)

MissingIntervals == {t \in DOMAIN results : MissingGeneration(t)}

FailedIntervals == {t \in DOMAIN results : SolveFailed(t)}

\* the daily emissions columns are the sums over the intervals outside excl
EmissionsExclude(excl) ==
    \A row \in emissions_day.rows :
        /\ row.emissions_exports = EmissionsSum(row.network_region, 1, excl)
        /\ row.emissions_imports = EmissionsSum(row.network_region, 2, excl)

\* the daily energy columns are those of the interconnector rows of the intervals
\* outside excl
EnergyExcludes(excl) ==
    LET Keep(r) == r.trading_interval \notin excl
        energy == region_flows(SelectSeq(df_ic, Keep), current_day)
    IN  \A row \in emissions_day.rows :
            \E en \in energy :
                /\ en.network_region = row.network_region
                /\ en.energy_imports = row.energy_imports
                /\ en.energy_exports = row.energy_exports

(* C4 (as amended): when the generation of a region is absent from an interval,
   nem_demand raises and solve_flows returns None for it (reported by print), the
   interval adds nothing to any region's daily emissions_imports or
   emissions_exports, and every interval of the day from the first to the last
   loaded timestamp is processed. *)
C4_MissingGenerationSkipsInterval ==
    /\ \A t \in DOMAIN results :
            MissingGeneration(t) =>
                results[t].is_none /\ Logged(<<"print", "solve_flows", t>>)
    /\ CalcDayReturned => DOMAIN results = DayIntervals
    /\ (CalcDayReturned /\ ~emissions_day.is_none) => EmissionsExclude(MissingIntervals)

\* calc_day has returned an aggregate for a day whose first interval lacks a region's
\* generation and whose later interval was solved
C4_Witness ==
    /\ CalcDayReturned
    /\ ~emissions_day.is_none
    /\ emissions_day.rows # {}
    /\ \E t \in MissingIntervals, u \in DOMAIN results : t < u /\ Solved(u)

(* C4 (as claimed): ... and that interval contributes nothing to the day's aggregate,
   its energy columns included. *)
C4_SkippedIntervalContributesNothing ==
    /\ C4_MissingGenerationSkipsInterval
    /\ (CalcDayReturned /\ ~emissions_day.is_none) => EnergyExcludes(MissingIntervals)

(* C5: when the linear solve of an interval fails, no value of that interval is
   included in any region's daily emissions_imports or emissions_exports, and the
   later intervals of the day are processed. *)
C5_SolveFailureSkipsInterval ==
    /\ CalcDayReturned => DOMAIN results = DayIntervals
    /\ (CalcDayReturned /\ ~emissions_day.is_none) => EmissionsExclude(FailedIntervals)

(* C6: in every interval whose demand could be computed, no entry of the coefficient
   matrix or of the constant vector handed to the linear solve is NaN or infinite. *)
C6_NoNaNHandedToSolve ==
    \A t \in DOMAIN results :
        ~results[t].is_none =>
            LET emissions_di == EmissionsAt(df_gen, t)
                p == power(emissions_di, InterconnectorsAt(df_ic, t))
                b == ConstantVector(emissions(emissions_di, p))
            IN  /\ MatrixFinite(CoefficientMatrix(p, nem_demand(p)))
                /\ \A i \in Idx : IsFinite(b[i])

Occurrences(seq, x) == Cardinality({i \in DOMAIN seq : seq[i] = x})

\* run_and_store_emission_flows has been left for the day it was last called for,
\* after calc_day returned
DayEnded ==
    /\ calls # <<>>
    /\ pc \in {"loop", "returned", "raised"}
    /\ exc \notin {"DataLoadError", "IndexError"}

(* C7: a day whose calc_day yields a non-empty aggregate is handed to insert_flows
   exactly once; a day whose calc_day yields None or an empty aggregate ends skipped
   with a warning and without a call of insert_flows; no day ends in another way. *)
C7_DayPersistedOrSkipped ==
    DayEnded =>
        LET day == calls[Len(calls)]
        IN  IF ~emissions_day.is_none /\ emissions_day.rows # {}
            THEN Occurrences(insert_calls, day) = 1 /\ exc = ""
            ELSE /\ Occurrences(insert_calls, day) = 0
                 /\ Logged(<<"warning", "run_and_store_emission_flows", day>>)
                 /\ exc = ""

(* C8: when run_emission_update_day ends (here: in a run whose queries succeed and
   return rows), the per-day pipeline has been invoked exactly once for each of the
   days+1 days day, day-1, ..., day-days, in that order, and the function has
   returned. *)
C8_EveryDayInvokedInOrder ==
    (pc \in {"returned", "raised"} /\ exc \notin {"DataLoadError", "IndexError"}) =>
        /\ pc = "returned"
        /\ calls = [i \in 1..(days + 1) |-> RunDay - (i - 1)]

(* C9: a failing storage query aborts only its own day: while days of the range
   remain, the failure does not end run_emission_update_day. *)
C9_QueryFailureAbortsOnlyItsDay ==
    (exc = "DataLoadError" /\ current_day > date_min) => pc # "raised"

(* C10: a day with zero solved intervals, also one whose generation load returns no
   rows, raises nothing out of run_emission_update_day. *)
C10_ZeroSolvedDayFailsSoft ==
    (pc = "raised" /\ exc \in {"IndexError", "ValueError"}) =>
        \E t \in DOMAIN results : Solved(t)

----------------------------------------------------------------------------
(* Specification of insert_flows called by concurrent runs for the same day *)

StoreRegions == <<"NSW1", "QLD1">>

FrameRow(day, reg, v) ==
    [trading_interval |-> day, network_id |-> "NEM", network_region |-> reg,
     energy_imports |-> v, energy_exports |-> v + 1,
     emissions_imports |-> v + 2, emissions_exports |-> v + 3]

FrameVals == {1, 2}

\* the frames calc_day hands over: rows of distinct regions of one day, in index order
FlowFrames ==
    {<<>>}
    \cup {<<FrameRow(RunDay, StoreRegions[1], v)>> : v \in FrameVals}
    \cup {[i \in DOMAIN StoreRegions |-> FrameRow(RunDay, StoreRegions[i], v)] : v \in FrameVals}

KeysOf(recs) == {[c \in PrimaryKey |-> recs[i][c]] : i \in DOMAIN recs}

InitStore ==
    /\ pc = "insert_flows"
    /\ interconnector_di = <<>>
    /\ ic_dict = EmptyDict
    /\ power_dict = EmptyDict
    /\ demand_dict = EmptyDict
    /\ DayIdle

\* lines 426-460: a run calls insert_flows; an empty frame is reported and 0 returned
InsertFlowsCall(w) ==
    /\ ins_pc[w] \in {"idle", "returned"}
    /\ clock < MaxClock
    /\ \E f \in FlowFrames :
        LET recs == ToRecords(f, clock + 1)
        IN  /\ flow_results' = [flow_results EXCEPT ![w] = f]
            /\ records_to_store' = [records_to_store EXCEPT ![w] = recs]
            /\ IF Len(recs) < 1
               THEN /\ log' = Append(log, <<"error", "insert_flows", w>>)
                    /\ ret' = [ret EXCEPT ![w] = 0]
                    /\ ins_pc' = [ins_pc EXCEPT ![w] = "returned"]
               ELSE /\ ret' = [ret EXCEPT ![w] = -1]
                    /\ ins_pc' = [ins_pc EXCEPT ![w] = "connect"]
                    /\ UNCHANGED log
    /\ clock' = clock + 1
    /\ insert_calls' = Append(insert_calls, RunDay)
    /\ UNCHANGED <<pc, pure_vars, ext_vars, days, current_day, df_gen, df_ic, dt, results,
                   emissions_day, calls, table, exc, conn, commits>>

\* lines 474-481: the connection and the cursor are obtained outside the try block;
\* a failure here leaves insert_flows as an exception
Connect(w) ==
    /\ ins_pc[w] = "connect"
    /\ \/ ins_pc' = [ins_pc EXCEPT ![w] = "copy_expert"] /\ UNCHANGED exc
       \/ ins_pc' = [ins_pc EXCEPT ![w] = "raised"] /\ exc' = "OperationalError"
    /\ UNCHANGED <<pc, pure_vars, ext_vars, days, current_day, df_gen, df_ic, dt, results,
                   emissions_day, calls, insert_calls, table, log, flow_results,
                   records_to_store, conn, ret, clock, commits>>

\* lines 483-484, 486-488: the statement runs in the connection's transaction and
\* waits for the rows another open transaction has written; a failure is caught,
\* logged and 0 is returned
CopyExpert(w) ==
    /\ ins_pc[w] = "copy_expert"
    /\ \/ /\ KeysOf(records_to_store[w]) \cap LockedByOthers(w) = {}
          /\ conn' = [conn EXCEPT ![w] = [open |-> TRUE,
                                          locked |-> KeysOf(records_to_store[w])]]
          /\ ins_pc' = [ins_pc EXCEPT ![w] = "commit"]
          /\ UNCHANGED <<log, ret>>
       \/ /\ log' = Append(log, <<"error", "insert_flows", w>>)
          /\ ret' = [ret EXCEPT ![w] = 0]
          /\ ins_pc' = [ins_pc EXCEPT ![w] = "returned"]
          /\ UNCHANGED conn
    /\ UNCHANGED <<pc, pure_vars, ext_vars, days, current_day, df_gen, df_ic, dt, results,
                   emissions_day, calls, insert_calls, table, exc, flow_results,
                   records_to_store, clock, commits>>

\* a commit that leaves the rows written before a failure in the table
Commit_row_by_row(w) ==
    /\ ins_pc[w] = "commit"
    /\ \/ /\ table' = UpsertAll(table, records_to_store[w],
                                build_insert_query(AggregateNetworkFlows, UpdateCols))
          /\ commits' = Append(commits, [run |-> w, records |-> records_to_store[w]])
          /\ log' = Append(log, <<"info", "insert_flows", w>>)
          /\ ret' = [ret EXCEPT ![w] = Len(records_to_store[w])]
       \/ /\ table' = Upsert(table, records_to_store[w][1],
                             build_insert_query(AggregateNetworkFlows, UpdateCols))
          /\ log' = Append(log, <<"error", "insert_flows", w>>)
          /\ ret' = [ret EXCEPT ![w] = 0]
          /\ UNCHANGED commits
    /\ conn' = [conn EXCEPT ![w] = NoTransaction]
    /\ ins_pc' = [ins_pc EXCEPT ![w] = "returned"]
    /\ UNCHANGED <<pc, pure_vars, ext_vars, days, current_day, df_gen, df_ic, dt, results,
                   emissions_day, calls, insert_calls, exc, flow_results,
                   records_to_store, clock>>

\* lines 485-492: the one commit makes all rows of the statement visible at once;
\* a failure is caught, logged and 0 is returned, the transaction is rolled back
\* with its connection
Commit(w) ==
    /\ ins_pc[w] = "commit"
    /\ \/ /\ table' = UpsertAll(table, records_to_store[w],
                                build_insert_query(AggregateNetworkFlows, UpdateCols))
          /\ commits' = Append(commits, [run |-> w, records |-> records_to_store[w]])
          /\ log' = Append(log, <<"info", "insert_flows", w>>)
          /\ ret' = [ret EXCEPT ![w] = Len(records_to_store[w])]
       \/ /\ log' = Append(log, <<"error", "insert_flows", w>>)
          /\ ret' = [ret EXCEPT ![w] = 0]
          /\ UNCHANGED <<table, commits>>
    /\ conn' = [conn EXCEPT ![w] = NoTransaction]
    /\ ins_pc' = [ins_pc EXCEPT ![w] = "returned"]
    /\ UNCHANGED <<pc, pure_vars, ext_vars, days, current_day, df_gen, df_ic, dt, results,
                   emissions_day, calls, insert_calls, exc, flow_results,
                   records_to_store, clock>>

\* the process of a run is stopped inside insert_flows: its transaction is rolled back
Interrupt(w) ==
    /\ ins_pc[w] \in {"connect", "copy_expert", "commit"}
    /\ ins_pc' = [ins_pc EXCEPT ![w] = "interrupted"]
    /\ conn' = [conn EXCEPT ![w] = NoTransaction]
    /\ UNCHANGED <<pc, pure_vars, ext_vars, days, current_day, df_gen, df_ic, dt, results,
                   emissions_day, calls, insert_calls, table, log, exc, flow_results,
                   records_to_store, ret, clock, commits>>

NextStore ==
    \E w \in Runs :
        \/ InsertFlowsCall(w)
        \/ Connect(w)
        \/ CopyExpert(w)
        \/ Commit(w)
        \/ Interrupt(w)

SpecStore == InitStore /\ [][NextStore]_vars

(* C11: a persistence failure (while obtaining the connection, in the bulk upsert or
   in the commit) never leaves insert_flows as an exception: it is logged and
   insert_flows returns 0. *)
C11_PersistFailureNeverRaises ==
    \A w \in Runs :
        /\ ins_pc[w] # "raised"
        /\ (ins_pc[w] = "returned" /\ ret[w] = 0) => Logged(<<"error", "insert_flows", w>>)

----------------------------------------------------------------------------
(* Properties of the stored aggregate *)

ValueColumns == {"energy_imports", "energy_exports", "emissions_imports", "emissions_exports"}

\* the stored rows with the key of row r
StoredFor(r) == {s \in table : \A c \in PrimaryKey : s[c] = r[c]}

(* C12: once run_emission_update_day has ended, the aggregate table holds exactly one
   row for every (trading_interval, network_id, network_region) of the aggregate the
   last run of calc_day computed, and its import/export values are those of that
   aggregate. *)
C12_RerunLeavesOneRowPerKey ==
    (pc \in {"returned", "raised"} /\ ~emissions_day.is_none) =>
        \A r \in emissions_day.rows :
            /\ Cardinality(StoredFor(r)) = 1
            /\ \A s \in StoredFor(r) : \A c \in ValueColumns : s[c] = r[c]

----------------------------------------------------------------------------
(* Specification of one insert compiled by compile_upsert *)

\* rows of the aggregate table as any writer may have stored them
AuditRows ==
    {[c \in Range(columns) |->
        CASE c = "trading_interval" -> RunDay
          [] c = "network_id" -> "NEM"
          [] c = "network_region" -> reg
          [] c = "created_by" -> by
          [] c = "created_at" -> at
          [] c = "updated_at" -> upd
          [] OTHER -> v]
     : reg \in Range(StoreRegions), v \in 1..MaxVal,
       by \in {"opennem.worker.emissions", "opennem.importer"},
       at \in {"", "2021-03-01"}, upd \in 0..1}

\* the row of the insert statement
Incoming == records_to_store[1][1]

InitUpsert ==
    /\ pc = "insert"
    /\ table \in {{}} \cup {{s} : s \in AuditRows}
    /\ records_to_store \in {[w \in Runs |-> IF w = 1 THEN <<r>> ELSE <<>>] : r \in AuditRows}
    /\ ins_pc = [w \in Runs |-> "idle"]
    /\ flow_results = [w \in Runs |-> <<>>]
    /\ conn = [w \in Runs |-> NoTransaction]
    /\ ret = [w \in Runs |-> -1]
    /\ clock = 0
    /\ commits = <<>>
    /\ days = 0
    /\ current_day = 0
    /\ df_gen = <<>>
    /\ df_ic = <<>>
    /\ dt = 0
    /\ results = <<>>
    /\ emissions_day = NoDayFrame
    /\ calls = <<>>
    /\ insert_calls = <<>>
    /\ log = <<>>
    /\ exc = ""
    /\ interconnector_di = <<>>
    /\ ic_dict = EmptyDict
    /\ power_dict = EmptyDict
    /\ demand_dict = EmptyDict
    /\ ExtIdle

\* the statement compile_upsert produced for the table is executed
ExecuteInsert ==
    /\ pc = "insert"
    /\ table' = Upsert(table, Incoming, compile_upsert(AggregateNetworkFlows))
    /\ pc' = "returned"
    /\ UNCHANGED <<pure_vars, ext_vars, days, current_day, df_gen, df_ic, dt, results, emissions_day,
                   calls, insert_calls, log, exc, store_vars>>

NextUpsert == ExecuteInsert

SpecUpsert == InitUpsert /\ [][NextUpsert]_vars

(* C13: when an insert meets a stored row with the same primary key, the row stored
   afterwards has the incoming row's value in every non-key column, created_by and
   updated_at included, except created_at, which keeps the stored value; no second
   row with that key appears. *)
C13_ConflictReplacesAllButCreatedAt ==
    [][\A s \in table :
          KeyOf(s, compile_upsert(AggregateNetworkFlows))
            = KeyOf(Incoming, compile_upsert(AggregateNetworkFlows))
          => /\ Cardinality(table') = 1
             /\ \A t \in table' : \A c \in Range(columns) \ PrimaryKey :
                   t[c] = IF c = "created_at" THEN s[c] ELSE Incoming[c]]_vars

\* a conflict happened: the stored row kept a created_at the incoming row does not
\* have and took the incoming row's created_by and updated_at
C13_Witness ==
    /\ pc = "returned"
    /\ \E t \in table :
        /\ t["created_at"] = "2021-03-01"
        /\ Incoming["created_at"] = ""
        /\ t["created_by"] = Incoming["created_by"]
        /\ t["created_by"] = "opennem.worker.emissions"
        /\ t["updated_at"] = Incoming["updated_at"]
        /\ t["updated_at"] = 1
        /\ t["energy_imports"] = Incoming["energy_imports"]

\* the commits that wrote the key of row s, in commit order
CommitsOf(s) ==
    {i \in DOMAIN commits :
        \E j \in DOMAIN commits[i].records :
            \A c \in PrimaryKey : commits[i].records[j][c] = s[c]}

(* C14: whatever the interleaving of the runs that write a key, the table holds
   exactly one row for every key committed so far, and that row is, column by
   column, the record of the run that committed that key last. *)
C14_LastCommitterWins ==
    /\ \A s \in table :
        /\ Cardinality(StoredFor(s)) = 1
        /\ CommitsOf(s) # {}
        /\ LET last == CHOOSE i \in CommitsOf(s) : \A k \in CommitsOf(s) : k <= i
           IN  \E j \in DOMAIN commits[last].records : commits[last].records[j] = s
    /\ \A i \in DOMAIN commits : \A j \in DOMAIN commits[i].records :
        StoredFor(commits[i].records[j]) # {}

\* two runs overlapped on a key: the run that called insert_flows first committed last,
\* and the table holds its (older) record
C14_Witness ==
    /\ Len(commits) = 2
    /\ commits[1].run # commits[2].run
    /\ commits[1].records[1]["network_region"] = commits[2].records[1]["network_region"]
    /\ commits[1].records[1]["energy_imports"] # commits[2].records[1]["energy_imports"]
    /\ commits[2].records[1]["updated_at"] < commits[1].records[1]["updated_at"]
    /\ commits[2].records[1] \in table

(* C15: the table never takes up a part of a run's batch: in every step in which a
   record of a run's batch appears in the table, all records of that batch appear,
   also when a write fails or a run is stopped. *)
C15_BatchAllOrNothing ==
    [][\A w \in Runs :
          LET batch == Range(records_to_store[w])
          IN  (\E r \in batch : r \in table' /\ r \notin table) => batch \subseteq table']_vars

\* one run committed its two rows while the other run, also holding two rows, failed
\* in its write or was stopped, and none of its rows is in the table
C15_Witness ==
    \E w \in Runs : \E o \in Runs \ {w} :
        /\ ins_pc[w] = "returned"
        /\ ret[w] = 2
        /\ Range(records_to_store[w]) \subseteq table
        /\ Len(records_to_store[o]) = 2
        /\ \/ ins_pc[o] = "interrupted"
           \/ ins_pc[o] = "returned" /\ ret[o] = 0
        /\ Range(records_to_store[o]) \cap table = {}

----------------------------------------------------------------------------
(* Properties of the daily aggregate calc_day returns *)

\* interval t has an interconnector row between the two regions of every link
AllLinksAt(t) ==
    \A l \in Links : \E i \in DOMAIN df_ic :
        /\ df_ic[i].trading_interval = t
        /\ {df_ic[i].interconnector_region_from, df_ic[i].interconnector_region_to}
             = {l[1], l[2]}

\* every interval of the loaded day has generation rows for all five regions and
\* interconnector rows that reach all five regions over the links of the grid
FullDay == df_gen # <<>> /\ \A t \in DayIntervals : ~MissingGeneration(t) /\ AllLinksAt(t)

RowsOfRegion(reg) ==
    {r \in emissions_day.rows :
        r.network_region = reg /\ r.network_id = "NEM" /\ r.trading_interval = current_day}

(* C16: for a day with generation and interconnector data for all five regions in
   every interval, calc_day returns exactly 5 rows, one per region NSW1, QLD1, SA1,
   TAS1 and VIC1, each keyed (day, "NEM", region), no key repeated. *)
C16_FiveRowsOnePerRegion ==
    (CalcDayReturned /\ FullDay) =>
        /\ ~emissions_day.is_none
        /\ Cardinality(emissions_day.rows) = 5
        /\ \A reg \in Regions : Cardinality(RowsOfRegion(reg)) = 1

\* calc_day has returned the aggregate of a full day all of whose intervals were solved
C16_Witness ==
    /\ CalcDayReturned
    /\ FullDay
    /\ \A t \in DayIntervals : Solved(t)
    /\ Cardinality(emissions_day.rows) = 5
    /\ \E r \in RowsOfRegion("QLD1") : RLt(R(0), r.emissions_imports)

Present(x) == IsFinite(x) /\ ~RLt(x, R(0))

(* C17: in every row calc_day returns, energy_imports, energy_exports,
   emissions_imports and emissions_exports are present (not missing/NaN) and >= 0,
   also on days where some intervals failed to solve. *)
C17_ValuesPresentAndNonNegative ==
    (CalcDayReturned /\ ~emissions_day.is_none) =>
        \A r \in emissions_day.rows :
            /\ r.energy_imports >= 0
            /\ r.energy_exports >= 0
            /\ Present(r.emissions_imports)
            /\ Present(r.emissions_exports)

\* the intervals of the day for which solve_flows returned a frame
Produced == {t \in DOMAIN results : ~results[t].is_none}

\* the (interval, edge) pairs with a result row whose end number side is reg
FlowsAt(reg, side) ==
    {x \in Produced \X Edges :
        /\ x[2][side] = reg
        /\ \E i \in DOMAIN results[x[1]].rows : results[x[1]].rows[i].index = x[2]}

FlowOf(x) ==
    LET i == CHOOSE j \in DOMAIN results[x[1]].rows : results[x[1]].rows[j].index = x[2]
    IN  results[x[1]].rows[i].EMISSIONS

\* the sum as pandas takes it: a NaN flow is skipped, and a region that is at that end
\* of no result row has no value
DaySum(reg, side) ==
    IF FlowsAt(reg, side) = {} THEN NaN ELSE RSumOver(FlowsAt(reg, side), FlowOf)

(* C18: for each region R of the aggregate calc_day returns, emissions_exports is the
   sum, over the intervals of the day that produced a result, of the emission flows
   on the edges whose source is R, and emissions_imports the same sum over the edges
   whose destination is R. *)
C18_DailySumsBySourceAndDestination ==
    (CalcDayReturned /\ ~emissions_day.is_none) =>
        \A r \in emissions_day.rows :
            /\ r.emissions_exports = DaySum(r.network_region, 1)
            /\ r.emissions_imports = DaySum(r.network_region, 2)

\* two intervals produced a result, at least one of them with a solution, and QLD1 imports
\* what was solved for NSW1->QLD1 while NSW1 exports more than that
C18_Witness ==
    /\ CalcDayReturned
    /\ Cardinality(Produced) = 2
    /\ \E t \in Produced : Solved(t)
    /\ \E q \in RowsOfRegion("QLD1") : \E n \in RowsOfRegion("NSW1") :
        /\ RLt(R(0), q.emissions_imports)
        /\ RLt(q.emissions_imports, n.emissions_exports)

\* the regions that are the source or the destination of a result row of the day
EmissionsSide ==
    {reg \in Regions \cup {"SNOWY1"} : FlowsAt(reg, 1) # {} \/ FlowsAt(reg, 2) # {}}

\* the regions that are an end of an interconnector row of the day
EnergySide ==
    {df_ic[i].interconnector_region_from : i \in DOMAIN df_ic}
    \cup {df_ic[i].interconnector_region_to : i \in DOMAIN df_ic}

(* C19: a region has a row in the aggregate calc_day returns iff it is on the
   emissions side and on the energy side of the merge; when either side is empty
   there is no output row, and nothing is stored for that day. *)
C19_InnerJoinOfBothSides ==
    CalcDayReturned =>
        /\ \A reg \in Regions \cup {"SNOWY1"} :
              (\E r \in emissions_day.rows : r.network_region = reg)
                  <=> (reg \in EmissionsSide /\ reg \in EnergySide)
        /\ (EmissionsSide = {} \/ EnergySide = {}) =>
              /\ emissions_day.rows = {}
              /\ \A s \in table : s["trading_interval"] # current_day

\* the energy side has a region (SNOWY1) the emissions side does not have, and the
\* aggregate has rows for the five regions of both sides only
C19_Witness ==
    /\ CalcDayReturned
    /\ "SNOWY1" \in EnergySide
    /\ "SNOWY1" \notin EmissionsSide
    /\ EmissionsSide = Regions
    /\ {r.network_region : r \in emissions_day.rows} = Regions

----------------------------------------------------------------------------
(* Properties of the log *)

\* the power dictionary solve_flows built for interval t
PowerAt(t) == power(EmissionsAt(df_gen, t), InterconnectorsAt(df_ic, t))

\* simple_exports caught the KeyError of an interconnector absent from interval t
CaughtInSimpleExports(t) == \E k \in simple_flows : k \notin DOMAIN PowerAt(t)

\* solve_flows caught the exception nem_demand raised for interval t
CaughtInSolveFlows(t) == nem_demand_raises(PowerAt(t))

\* an entry written through the logger by site for t
LoggerEntry(site, t) ==
    \E level \in {"debug", "info", "warning", "error"} : Logged(<<level, site, t>>)

(* C20: every exception the pipeline catches is followed by a log entry written
   through the logger: for every interval processed, a KeyError caught in
   simple_exports and an exception of nem_demand caught in solve_flows have their
   logger entry, and so has the failed concatenation caught in calc_day. *)
C20_NoErrorSwallowedSilently ==
    /\ \A t \in DOMAIN results :
        /\ CaughtInSimpleExports(t) =>
              LoggerEntry("simple_exports", t) \/ LoggerEntry("emissions", t)
        /\ CaughtInSolveFlows(t) => LoggerEntry("solve_flows", t)
    /\ (CalcDayReturned /\ AllNone(results)) => LoggerEntry("calc_day", current_day)

----------------------------------------------------------------------------
(* Specification of the session http of utils.http: the import of the module,
   then requests made through the session *)

Timeouts == {NoTimeout, 1, 2}

Statuses == {200, 404, 403, 500}

InitHttp ==
    /\ pc = "http"
    /\ interconnector_di = <<>>
    /\ ic_dict = EmptyDict
    /\ power_dict = EmptyDict
    /\ demand_dict = EmptyDict
    /\ DayIdle

\* the next http.mount(...) statement of the module body
ImportMount ==
    /\ http_pc < Imported
    /\ adapters' = mount(adapters, ModuleMounts[http_pc][1], ModuleMounts[http_pc][2])
    /\ http_pc' = http_pc + 1
    /\ UNCHANGED <<pc, pure_vars, day_vars, store_vars, engine_vars, crawl_vars, http_req, http_resp>>

\* http.request(method, url, timeout=timeout): the adapter mounted for the url's prefix
\* sends the request
HttpRequest ==
    /\ http_pc = Imported
    /\ http_req = NoRequest
    /\ \E method \in Methods, prefix \in Prefixes, timeout \in Timeouts :
          LET adapter == adapters[prefix]
          IN  http_req' = [method |-> method, prefix |-> prefix, timeout |-> timeout,
                           sent_timeout |-> AdapterSend(adapter, timeout),
                           max_retries |-> adapter.max_retries,
                           retries_left |-> adapter.max_retries.total]
    /\ UNCHANGED <<pc, pure_vars, day_vars, store_vars, engine_vars, crawl_vars, adapters, http_pc, http_resp>>

\* the server answers: the adapter's Retry sends the request again while it has retries
\* left for this method and status, otherwise the response goes back to the caller
HttpResponse ==
    /\ http_req # NoRequest
    /\ \E status \in Statuses :
          IF /\ http_req.retries_left > 0
             /\ http_req.method \in http_req.max_retries.allowed_methods
             /\ status \in http_req.max_retries.status_forcelist
          THEN /\ http_req' = [http_req EXCEPT !.retries_left = @ - 1]
               /\ UNCHANGED http_resp
          ELSE /\ http_req' = NoRequest
               /\ http_resp' = status
    /\ UNCHANGED <<pc, pure_vars, day_vars, store_vars, engine_vars, crawl_vars, adapters, http_pc>>

NextHttp == ImportMount \/ HttpRequest \/ HttpResponse

SpecHttp == InitHttp /\ [][NextHttp]_vars

\* C21: a request made through the module-level session http without an explicit timeout
\* goes out with DEFAULT_TIMEOUT and is subject to the retry strategy: both the timeout
\* adapter and the retry adapter are in effect for http:// and https://
C21_TimeoutAndRetryInEffect ==
    (http_req # NoRequest /\ http_req.timeout = NoTimeout)
        => /\ http_req.sent_timeout = DEFAULT_TIMEOUT
           /\ http_req.max_retries = retry_strategy

----------------------------------------------------------------------------
(* Properties of the energy side of the daily aggregate *)

AllRegions == Regions \cup {"SNOWY1"}

\* the flow telemetered at interval t on the rows from region a to region b
TelemeteredAt(t, a, b) ==
    LET g == GroupedFlows(InterconnectorsAt(df_ic, t))
    IN  IF <<a, b>> \in DOMAIN g THEN g[<<a, b>>] ELSE 0

\* the non-negative net flow from a to b at interval t
NetFlowAt(t, a, b) == Clip(TelemeteredAt(t, a, b) - TelemeteredAt(t, b, a))

IntervalsOfIc == {df_ic[i].trading_interval : i \in DOMAIN df_ic}

NetOutbound(reg) ==
    LET PerInterval(t) == LET To(y) == NetFlowAt(t, reg, y) IN SumOver(AllRegions \ {reg}, To)
    IN  SumOver(IntervalsOfIc, PerInterval)

NetInbound(reg) ==
    LET PerInterval(t) == LET From(x) == NetFlowAt(t, x, reg) IN SumOver(AllRegions \ {reg}, From)
    IN  SumOver(IntervalsOfIc, PerInterval)

\* C22: for each region the daily energy_exports (energy_imports) region_flows returns
\* is the sum over the day's intervals of that interval's non-negative net outbound
\* (inbound) flow: backflow is clipped per interval before summing, not after netting
\* the whole day
C22_EnergyClippedPerInterval ==
    CalcDayReturned =>
        \A r \in region_flows(df_ic, current_day) :
            /\ r.energy_exports = NetOutbound(r.network_region)
            /\ r.energy_imports = NetInbound(r.network_region)

----------------------------------------------------------------------------
(* Direction convention of interconnector_dict, region_flows and nem_demand *)

\* no link of the interval has rows in both directions
NoOppositeRows ==
    \A i, j \in DOMAIN interconnector_di :
        ~(/\ interconnector_di[i].interconnector_region_from
                = interconnector_di[j].interconnector_region_to
          /\ interconnector_di[i].interconnector_region_to
                = interconnector_di[j].interconnector_region_from)

\* the sum of the dictionary's entries keyed (reg, Y), the flows nem_demand debits to reg
DictOutOf(reg) ==
    LET Val(k) == ic_dict[k] IN SumOver({k \in DOMAIN ic_dict : k[1] = reg}, Val)

\* the sum of the dictionary's entries keyed (X, reg), the flows nem_demand credits to reg
DictInto(reg) ==
    LET Val(k) == ic_dict[k] IN SumOver({k \in DOMAIN ic_dict : k[2] = reg}, Val)

\* C23: the direction convention is the same in every step: the value interconnector_dict
\* stores under key (X,Y) is the flow region_flows counts as an export of X and an import
\* of Y, so the entries nem_demand credits to a region (keys (X,R)) are the region's
\* imports of region_flows and the entries it debits (keys (R,Y)) are its exports
C23_SameDirectionConvention ==
    (pc = "returned" /\ NoOppositeRows) =>
        \A r \in region_flows(interconnector_di, 0) :
            /\ r.energy_exports = DictOutOf(r.network_region)
            /\ r.energy_imports = DictInto(r.network_region)

----------------------------------------------------------------------------
(* Properties of the linear system solve_flows builds for an interval *)

\* the variable of each region's total emissions and of each solved edge's emission flow
TotalVar == [reg \in Regions |->
                CASE reg = "SA1" -> "s" [] reg = "QLD1" -> "q" [] reg = "TAS1" -> "t"
                  [] reg = "NSW1" -> "n" [] reg = "VIC1" -> "v"]

SolvedEdges == {<<"NSW1", "QLD1">>, <<"NSW1", "VIC1">>, <<"VIC1", "TAS1">>, <<"VIC1", "SA1">>,
                <<"VIC1", "NSW1">>}

EdgeVar == [edge \in SolvedEdges |->
                CASE edge = <<"NSW1", "QLD1">> -> "n-q" [] edge = <<"NSW1", "VIC1">> -> "n-v"
                  [] edge = <<"VIC1", "TAS1">> -> "v-t" [] edge = <<"VIC1", "SA1">> -> "v-s"
                  [] edge = <<"VIC1", "NSW1">> -> "v-n"]

\* what solve_flows works with at interval t: the dictionaries, whether nem_demand
\* returned so that the system is built, the system, and what np.linalg.solve does
\* with it when LAPACK does not raise on entries that are not finite
SystemAt(t) ==
    LET em == EmissionsAt(df_gen, t)
        p == power(em, InterconnectorsAt(df_ic, t))
        e == emissions(em, p)
        built == ~nem_demand_raises(p)
        d == IF built THEN nem_demand(p) ELSE EmptyDict
        a == IF built THEN CoefficientMatrix(p, d) ELSE Zeros2
        b == IF built THEN ConstantVector(e) ELSE Zeros1
    IN  [built |-> built, p |-> p, e |-> e, d |-> d, a |-> a, b |-> b,
         sol |-> linalg_solve(a, b, FALSE)]

\* the interval calculate_emission_flows called solve_flows for last
LastStep == {t \in DOMAIN results : pc = "calculate_emission_flows" /\ t = dt - 1}

\* row r of the system s is the intensity equation of the edge:
\* emission_flow(X->Y) - (flow(X->Y)/demand(X)) * total_emissions(X) = 0
IsIntensityRow(s, r, edge) ==
    LET ev == var_dict[EdgeVar[edge]]
        tv == var_dict[TotalVar[edge[1]]]
    IN  /\ s.a[r][ev] = R(1)
        /\ s.d[edge[1]] # 0 => s.a[r][tv] = Frac(-s.p[edge], s.d[edge[1]])
        /\ \A j \in Idx \ {ev, tv} : s.a[r][j] = R(0)
        /\ s.b[r] = R(0)

\* C24: for each of the five solved edges X->Y the system of an interval contains exactly
\* one intensity equation: coefficient 1 on the edge's emission flow, -flow(X->Y)/demand(X)
\* on the total emissions of X, no other non-zero coefficient, constant term 0
C24_OneIntensityEquationPerEdge ==
    \A t \in LastStep :
        LET s == SystemAt(t)
        IN  s.built =>
                \A edge \in SolvedEdges :
                    Cardinality({r \in Idx : IsIntensityRow(s, r, edge)}) = 1

\* a system was built whose edge NSW1->QLD1 carries flow out of a region with demand
C24_Witness ==
    \E t \in LastStep :
        LET s == SystemAt(t)
        IN  /\ s.built
            /\ s.p[<<"NSW1", "QLD1">>] > 0
            /\ s.d["NSW1"] > 0
            /\ \E r \in Idx : IsIntensityRow(s, r, <<"NSW1", "QLD1">>) /\ s.a[r][3] # R(0)

\* the directed edges into and out of a region
EdgesInto(reg) == {edge \in Edges : edge[2] = reg}

EdgesOutOf(reg) == {edge \in Edges : edge[1] = reg}

\* the coefficient the conservation equation of reg has on variable j when every solved
\* edge is moved to the left-hand side: total(reg) - inbound + outbound = constant
BalanceCoefficient(reg, j) ==
    IF j = var_dict[TotalVar[reg]] THEN R(1)
    ELSE IF \E edge \in SolvedEdges \cap EdgesInto(reg) : var_dict[EdgeVar[edge]] = j THEN R(-1)
    ELSE IF \E edge \in SolvedEdges \cap EdgesOutOf(reg) : var_dict[EdgeVar[edge]] = j THEN R(1)
    ELSE R(0)

\* the constant of the conservation equation of reg: local emissions plus the emission
\* flow of the simple edges into reg minus that of the simple edges out of reg
BalanceConstant(e, reg) ==
    LET Of(edge) == e[edge]
    IN  RSub(RAdd(e[K1(reg)], RSumOver(simple_flows \cap EdgesInto(reg), Of)),
             RSumOver(simple_flows \cap EdgesOutOf(reg), Of))

IsBalanceRow(s, r, reg) ==
    /\ \A j \in Idx : s.a[r][j] = BalanceCoefficient(reg, j)
    /\ s.b[r] = BalanceConstant(s.e, reg)

\* C25: the system of an interval has for every region one balance row that encodes
\* total(R) = local emissions(R) + inbound emission flows - outbound emission flows over
\* the edges adjacent to R (for SA1, QLD1 and TAS1 the two edges to and from their hub),
\* each adjacent directed edge once with its sign, in the row when it is solved and in
\* the constant when it is a simple edge
C25_BalanceRowsConserveEmissions ==
    \A t \in LastStep :
        LET s == SystemAt(t)
        IN  s.built =>
                /\ \A edge \in Edges : (edge \in SolvedEdges) # (edge \in simple_flows)
                /\ \A reg \in Regions :
                      Cardinality({r \in Idx : IsBalanceRow(s, r, reg)}) = 1

\* a system was built in which VIC1, a hub, takes in emissions over the simple edge from
\* SA1 and the constant of its balance row exceeds its local emissions
C25_Witness ==
    \E t \in LastStep :
        LET s == SystemAt(t)
        IN  /\ s.built
            /\ s.e[<<"SA1", "VIC1">>] # R(0)
            /\ \E r \in Idx : IsBalanceRow(s, r, "VIC1") /\ s.b[r] # s.e[K1("VIC1")]

\* np.linalg.solve returned a result for the system s
SolveSucceeded(s) == MatrixFinite(s.a) /\ ~s.sol.singular

\* x satisfies every equation of the system s
Satisfies(s, x) ==
    \A i \in Idx :
        LET Term(j) == RMul(s.a[i][j], x[j])
        IN  RSumOver(Idx, Term) = s.b[i]

\* the rows of the frame stored for interval t that are indexed by the edge
RowsOfEdge(t, edge) == {i \in DOMAIN results[t].rows : results[t].rows[i].index = edge}

\* C26: when the solve of an interval succeeds, the emission flow reported for each solved
\* edge is the component of the solution that belongs to that edge's own variable, and
\* the balance equation of each region stands in the row whose index fill_constant
\* derives from the region's variable name, so that row and constant belong together
C26_EdgeTakesItsOwnSolutionComponent ==
    \A t \in LastStep :
        LET s == SystemAt(t)
        IN  s.built =>
                /\ \A reg \in Regions : IsBalanceRow(s, var_dict[TotalVar[reg]], reg)
                /\ SolveSucceeded(s) =>
                      /\ Satisfies(s, s.sol.x)
                      /\ \A edge \in SolvedEdges :
                            /\ Cardinality(RowsOfEdge(t, edge)) = 1
                            /\ \A i \in RowsOfEdge(t, edge) :
                                  results[t].rows[i].EMISSIONS
                                      = s.sol.x[var_dict[EdgeVar[edge]]]

\* a solve succeeded whose solution has different emission flows on NSW1->QLD1 and
\* VIC1->NSW1
C26_Witness ==
    \E t \in LastStep :
        LET s == SystemAt(t)
        IN  /\ s.built
            /\ SolveSucceeded(s)
            /\ s.sol.x[var_dict["n-q"]] # s.sol.x[var_dict["v-n"]]
            /\ \E i \in RowsOfEdge(t, <<"NSW1", "QLD1">>) :
                  results[t].rows[i].EMISSIONS = s.sol.x[var_dict["n-q"]]

\* the edges whose row in the frame of interval t holds the entry the emissions
\* dictionary e has for the edge, solve or no solve
DirectEdges(t, e) ==
    {edge \in Edges :
        /\ edge \in DOMAIN e
        /\ Cardinality(RowsOfEdge(t, edge)) = 1
        /\ \A i \in RowsOfEdge(t, edge) : results[t].rows[i].EMISSIONS = e[edge]}

\* every edge that is not taken from the emissions dictionary has a row only when
\* np.linalg.solve returned, and the row holds the solution's component
OthersOnlyFromSolve(t, s) ==
    \A edge \in Edges \ DirectEdges(t, s.e) :
        \A i \in RowsOfEdge(t, edge) :
            /\ edge \in SolvedEdges
            /\ IF MatrixFinite(s.a)
               THEN /\ SolveSucceeded(s)
                    /\ results[t].rows[i].EMISSIONS = s.sol.x[var_dict[EdgeVar[edge]]]
               ELSE IsNaN(results[t].rows[i].EMISSIONS)

\* C27 as claimed: exactly two simple radial edges take their emission flow directly
\* from the emissions aggregation without the solve, every other directed edge gets
\* its value only from the solve
C27_TwoSimpleEdges ==
    \A t \in LastStep :
        LET s == SystemAt(t)
        IN  s.built => Cardinality(DirectEdges(t, s.e)) = 2 /\ OthersOnlyFromSolve(t, s)

\* C27 amended: exactly three simple radial edges, QLD1->NSW1, SA1->VIC1 and TAS1->VIC1,
\* one out of each leaf region, take their emission flow directly from the emissions
\* aggregation without the solve; every other directed edge gets its value only from
\* the solve
C27_ThreeSimpleEdges ==
    \A t \in LastStep :
        LET s == SystemAt(t)
        IN  s.built =>
                /\ DirectEdges(t, s.e)
                      = {<<"QLD1", "NSW1">>, <<"SA1", "VIC1">>, <<"TAS1", "VIC1">>}
                /\ Cardinality(DirectEdges(t, s.e)) = 3
                /\ OthersOnlyFromSolve(t, s)

\* the solve of an interval failed and its frame holds the three simple edges only,
\* one of them with an emission flow
C27_Witness ==
    \E t \in LastStep :
        LET s == SystemAt(t)
        IN  /\ s.built
            /\ Len(results[t].rows) = 3
            /\ Cardinality(DirectEdges(t, s.e)) = 3
            /\ \E i \in DOMAIN results[t].rows : results[t].rows[i].EMISSIONS # R(0)

----------------------------------------------------------------------------
(* The interval loop of calculate_emission_flows *)

\* dt += timedelta(minutes=5)
StepMinutes == 5

\* the steps from 00:00 to 23:55, the first and last interval the queries of a day
\* select, in minutes of the day
FullDaySteps ==
    LET first == 0
        last == 24 * 60 - StepMinutes
    IN  (last - first) \div StepMinutes + 1

InLoop == pc = "calculate_emission_flows"

\* a turn of the while loop: its condition holds and dt moves on
LoopTurn == InLoop /\ dt <= LastInterval(df_gen) /\ dt' = dt + 1

\* the while loop is left: its condition is false and calculate_emission_flows returns
LoopExit == InLoop /\ dt > LastInterval(df_gen) /\ pc' = "run_and_store_emission_flows"

\* the while loop of calculate_emission_flows runs on: a turn that is possible is
\* taken, and the loop is left when its condition is false
FairSpec == Spec /\ WF_dt(LoopTurn) /\ WF_pc(LoopExit)

NoGenerationRows(t) == \A i \in DOMAIN df_gen : df_gen[i].trading_interval # t

\* in the loop the steps from the first timestamp up to dt have one entry each and no
\* other step has one; after it every step up to the last timestamp has, a step
\* without generation rows the entry None
StepsVisited ==
    /\ InLoop =>
          /\ dt <= LastInterval(df_gen) + 1
          /\ DOMAIN results = FirstInterval(df_gen)..(dt - 1)
    /\ CalcDayReturned =>
          /\ DOMAIN results = FirstInterval(df_gen)..LastInterval(df_gen)
          /\ \A t \in DOMAIN results : NoGenerationRows(t) => results[t].is_none

\* a turn of the loop stores the entry of step dt, which had none, keeps the entries
\* stored before and moves on to the next step
OneEntryPerTurn ==
    (InLoop /\ InLoop' /\ results' # results) =>
        /\ dt \notin DOMAIN results
        /\ DOMAIN results' = DOMAIN results \cup {dt}
        /\ \A t \in DOMAIN results : results'[t] = results[t]
        /\ dt' = dt + 1

\* C28: calculate_emission_flows visits every 5-minute step from the first to the last
\* loaded generation timestamp inclusive, once each and in ascending order, stores one
\* result entry per step (a frame, or None, also for a step without generation rows),
\* and terminates; a full day of data gives 288 steps
C28_EveryStepOnceThenReturn ==
    /\ [](StepsVisited /\ FullDaySteps = 288)
    /\ [][OneEntryPerTurn]_vars
    /\ (InLoop ~> CalcDayReturned)

\* the loop has returned over three steps, the middle one without generation rows and
\* with the entry None, the first one with a frame
C28_Witness ==
    /\ CalcDayReturned
    /\ Cardinality(DOMAIN results) = 3
    /\ \E t \in DOMAIN results :
          /\ NoGenerationRows(t)
          /\ results[t].is_none
          /\ t - 1 \in DOMAIN results
          /\ ~results[t - 1].is_none
          /\ t + 1 \in DOMAIN results

----------------------------------------------------------------------------
(* Specification of run_milestone_engine *)

\* the last interval a network's last completed interval or last seen data may be
MaxEngineInterval == 3

\* a network: interval_size and data_first_seen may be missing, data_last_seen may be
\* missing; last_completed is what get_last_completed_interval_for_network returns
NetworkSchemas(code) ==
    [code : {code}, interval_size : {NoInterval, 1}, data_first_seen : {NoInterval, 2},
     data_last_seen : {NoInterval, 2}, last_completed : 2..MaxEngineInterval]

NetworkLists == {<<a, b>> : a \in NetworkSchemas("NEM"), b \in NetworkSchemas("WEM")}

MetricSets == {{"demand"}, {"demand", "energy"}}

\* the buckets of periods, in order, that is_end_of_period can hold for at an interval
PeriodEnds == {<<>>, <<"interval">>, <<"interval", "day">>}

Task(network, interval, bucket_size, processor) ==
    [network |-> network.code, interval |-> interval, bucket_size |-> bucket_size,
     processor |-> processor]

\* lines 96-112: the coroutines created for one bucket of an interval
TasksOf(network, interval, bucket_size, m) ==
    (IF "demand" \in m \/ "price" \in m
     THEN <<Task(network, interval, bucket_size, "price_demand")>> ELSE <<>>)
    \o (IF "power" \in m \/ "energy" \in m \/ "emissions" \in m
        THEN <<Task(network, interval, bucket_size, "generation")>> ELSE <<>>)

InitEngine ==
    /\ pc = "engine"
    /\ interconnector_di = <<>>
    /\ ic_dict = EmptyDict
    /\ power_dict = EmptyDict
    /\ demand_dict = EmptyDict
    /\ DayIdle

\* lines 40-59: the call; asyncio is bound in the module only when the module is run
\* as the main program (line 130)
EngineCall ==
    /\ eng_pc = "idle"
    /\ networks' \in NetworkLists
    /\ start_interval' = 1
    /\ end_interval_arg' \in {NoInterval, 2}
    /\ end_interval' = end_interval_arg'
    /\ metrics' \in MetricSets
    /\ \E n \in {0, 2} : num_tasks' = IF n = 0 THEN _DEFAULT_NUM_TASKS ELSE n
    /\ dry_run' \in BOOLEAN
    /\ asyncio_imported' \in BOOLEAN
    /\ network_i' = 1
    /\ eng_pc' = "for"
    /\ UNCHANGED <<pc, pure_vars, day_vars, store_vars, http_vars, crawl_vars, current_interval, tasks,
                   created, awaited>>

\* lines 61-76 and the end of the for loop: the next network is skipped or its
\* interval loop is set up; end_interval is assigned only while it has no value
EngineNetwork ==
    /\ eng_pc = "for"
    /\ IF network_i > Len(networks)
       THEN /\ eng_pc' = "returned"
            /\ UNCHANGED <<network_i, end_interval, current_interval, tasks>>
       ELSE LET network == networks[network_i]
            IN  IF network.interval_size = NoInterval \/ network.data_first_seen = NoInterval
                THEN /\ network_i' = network_i + 1
                     /\ UNCHANGED <<eng_pc, end_interval, current_interval, tasks>>
                ELSE /\ end_interval' = IF end_interval = NoInterval
                                        THEN network.last_completed ELSE end_interval
                     /\ current_interval' = start_interval
                     /\ tasks' = <<>>
                     /\ eng_pc' = "while"
                     /\ UNCHANGED network_i
    /\ UNCHANGED <<pc, pure_vars, day_vars, store_vars, http_vars, crawl_vars, asyncio_imported, dry_run,
                   networks, start_interval, end_interval_arg, metrics, num_tasks, created,
                   awaited>>

\* the while loop is left: its condition is false, or the break of line 81
LeavesLoop ==
    LET network == networks[network_i]
    IN  \/ current_interval > end_interval
        \/ network.data_last_seen # NoInterval /\ current_interval > network.data_last_seen

RECURSIVE TasksOfBuckets(_, _, _, _)
TasksOfBuckets(network, interval, buckets, m) ==
    IF buckets = <<>> THEN <<>>
    ELSE TasksOf(network, interval, Head(buckets), m)
         \o TasksOfBuckets(network, interval, Tail(buckets), m)

\* lines 78-120: one turn of the while loop; ends are the buckets the interval is the
\* end of
EngineInterval ==
    /\ eng_pc = "while"
    /\ ~LeavesLoop
    /\ LET network == networks[network_i]
       IN  IF current_interval < network.data_first_seen
           THEN /\ current_interval' = current_interval + network.interval_size
                /\ UNCHANGED <<eng_pc, tasks, created, awaited>>
           ELSE \E ends \in PeriodEnds :
                  LET new == IF dry_run THEN <<>>
                             ELSE TasksOfBuckets(network, current_interval, ends, metrics)
                      all == tasks \o new
                  IN  /\ created' = created \cup Range(new)
                      /\ current_interval' = current_interval + network.interval_size
                      /\ IF Len(all) >= num_tasks
                         THEN IF asyncio_imported
                              THEN /\ awaited' = awaited \cup Range(all)
                                   /\ tasks' = <<>>
                                   /\ UNCHANGED eng_pc
                              ELSE /\ eng_pc' = "NameError"
                                   /\ tasks' = all
                                   /\ UNCHANGED awaited
                         ELSE /\ tasks' = all
                              /\ UNCHANGED <<eng_pc, awaited>>
    /\ UNCHANGED <<pc, pure_vars, day_vars, store_vars, http_vars, crawl_vars, asyncio_imported, dry_run,
                   networks, start_interval, end_interval_arg, end_interval, metrics,
                   num_tasks, network_i>>

\* lines 122-124: after the while loop the remaining tasks are gathered
EngineGather ==
    /\ eng_pc = "while"
    /\ LeavesLoop
    /\ IF tasks = <<>>
       THEN /\ eng_pc' = "for"
            /\ network_i' = network_i + 1
            /\ UNCHANGED <<tasks, awaited>>
       ELSE IF asyncio_imported
            THEN /\ awaited' = awaited \cup Range(tasks)
                 /\ eng_pc' = "for"
                 /\ network_i' = network_i + 1
                 /\ UNCHANGED tasks
            ELSE /\ eng_pc' = "NameError"
                 /\ UNCHANGED <<network_i, tasks, awaited>>
    /\ UNCHANGED <<pc, pure_vars, day_vars, store_vars, http_vars, crawl_vars, asyncio_imported, dry_run,
                   networks, start_interval, end_interval_arg, end_interval, metrics,
                   num_tasks, current_interval, created>>

NextEngine == EngineCall \/ EngineNetwork \/ EngineInterval \/ EngineGather

SpecEngine == InitEngine /\ [][NextEngine]_vars

\* the engine was called without end_interval
CalledWithoutEnd == eng_pc # "idle" /\ end_interval_arg = NoInterval

\* C29: when run_milestone_engine is called without end_interval, the interval loop of
\* each network runs up to that network's own last completed interval, whichever
\* networks were processed before it, and every task created is awaited before the
\* engine returns
C29_EachNetworkToItsOwnLastInterval ==
    /\ (eng_pc = "while" /\ CalledWithoutEnd)
          => end_interval = networks[network_i].last_completed
    /\ eng_pc = "returned" => created \subseteq awaited

----------------------------------------------------------------------------
(* Specification of run_crawl *)

\* get_today_opennem() returns times up to MaxCrawlTime
MaxCrawlTime == 3

\* crawler_set_meta(crawler.name, key, value)
crawler_set_meta(meta, key, value) == [meta EXCEPT ![key] = value]

ControllerReturns ==
    [is_none : {FALSE}, server_latest : {None} \cup {Time(t) : t \in 1..MaxCrawlTime},
     errors : 0..1]

\* lines 66-67: what run_crawl writes before it calls the processor
MetaBeforeProcessor(c, meta, now) ==
    crawler_set_meta(crawler_set_meta(meta, "version", c.version), "last_crawled", Time(now))

\* run_crawl after the processor that keeps last_processed, server_latest and
\* latest_processed up to date whatever the processor reports
AfterProcessor_ignoring_errors(c, meta, result, now) ==
    IF result.is_none THEN [crawler |-> c, meta |-> meta]
    ELSE LET m1 == IF result.server_latest # None
                   THEN crawler_set_meta(meta, "version", c.server_latest) ELSE meta
         IN  [crawler |-> [c EXCEPT !.last_processed = Time(now),
                                    !.server_latest = result.server_latest],
              meta |-> crawler_set_meta(m1, "latest_processed", Time(now))]

\* lines 73-98: run_crawl after the processor returned result
AfterProcessor(c, meta, result, now) ==
    IF result.is_none THEN [crawler |-> c, meta |-> meta]
    ELSE LET m1 == IF result.server_latest # None
                   THEN crawler_set_meta(meta, "version", c.server_latest) ELSE meta
             has_errors == result.errors > 0
         IN  IF has_errors THEN [crawler |-> c, meta |-> m1]
             ELSE [crawler |-> [c EXCEPT !.last_processed = Time(now),
                                         !.server_latest = result.server_latest],
                   meta |-> crawler_set_meta(m1, "latest_processed", Time(now))]

InitCrawl ==
    /\ pc = "crawl"
    /\ interconnector_di = <<>>
    /\ ic_dict = EmptyDict
    /\ power_dict = EmptyDict
    /\ demand_dict = EmptyDict
    /\ DayIdle

\* lines 56-69: run_crawl up to the call of crawler.processor
RunCrawl ==
    /\ crawl_pc \in {"idle", "returned", "raised"}
    /\ now_nem_time < MaxCrawlTime
    /\ \E now \in (now_nem_time + 1)..MaxCrawlTime : now_nem_time' = now
    /\ crawl_meta' = MetaBeforeProcessor(crawler, crawl_meta, now_nem_time')
    /\ crawl_pc' = "processor"
    /\ UNCHANGED <<pc, pure_vars, day_vars, store_vars, http_vars, engine_vars, crawler, cr>>

\* lines 69-98: the processor returns a ControllerReturn or nothing, and run_crawl
\* goes on to its end
ProcessorReturns ==
    /\ crawl_pc = "processor"
    /\ cr' \in ControllerReturns \cup {NoControllerReturn}
    /\ LET after == AfterProcessor(crawler, crawl_meta, cr', now_nem_time)
       IN  /\ crawler' = after.crawler
           /\ crawl_meta' = after.meta
    /\ crawl_pc' = "returned"
    /\ UNCHANGED <<pc, pure_vars, day_vars, store_vars, http_vars, engine_vars, now_nem_time>>

\* the processor raises: nothing in run_crawl catches it
ProcessorRaises ==
    /\ crawl_pc = "processor"
    /\ crawl_pc' = "raised"
    /\ UNCHANGED <<pc, pure_vars, day_vars, store_vars, http_vars, engine_vars, crawler,
                   crawl_meta, cr, now_nem_time>>

NextCrawl == RunCrawl \/ ProcessorReturns \/ ProcessorRaises

SpecCrawl == InitCrawl /\ [][NextCrawl]_vars

\* last_crawled and version are recorded when the processor is about to run
RecordedBeforeProcessor ==
    crawl_pc = "processor" =>
        /\ crawl_meta["last_crawled"] = Time(now_nem_time)
        /\ crawl_meta["version"] = crawler.version

\* the step in which run_crawl gets the processor's result and ends: with a result that
\* has no errors last_processed, server_latest and latest_processed are set, otherwise
\* the three are left as they were
ProcessedOnlyWithoutErrors ==
    (crawl_pc = "processor" /\ crawl_pc' # "processor") =>
        IF crawl_pc' = "returned" /\ ~cr'.is_none /\ cr'.errors = 0
        THEN /\ crawler'.last_processed = Time(now_nem_time)
             /\ crawler'.server_latest = cr'.server_latest
             /\ crawl_meta'["latest_processed"] = Time(now_nem_time)
        ELSE /\ crawler'.last_processed = crawler.last_processed
             /\ crawler'.server_latest = crawler.server_latest
             /\ crawl_meta'["latest_processed"] = crawl_meta["latest_processed"]

\* C30: run_crawl records last_crawled (and version) before the processor runs on every
\* call, and updates the crawler's last_processed and server_latest and the
\* latest_processed metadata only when the processor returns a result with zero errors;
\* when the processor returns nothing or reports errors they are left unchanged
C30_ProcessedOnlyOnCleanResult ==
    []RecordedBeforeProcessor /\ [][ProcessedOnlyWithoutErrors]_vars

\* a crawl that reported errors has returned after an earlier clean one: last_crawled
\* is the time of this crawl, last_processed and latest_processed that of the earlier
C30_Witness ==
    /\ crawl_pc = "returned"
    /\ ~cr.is_none
    /\ cr.errors > 0
    /\ cr.server_latest # None
    /\ crawl_meta["last_crawled"] = Time(now_nem_time)
    /\ crawler.last_processed # None
    /\ crawler.last_processed # Time(now_nem_time)
    /\ crawl_meta["latest_processed"] = crawler.last_processed

====
